---- MODULE Spec2Model ----
(***************************************************************************)
(* A model of gematria's BasicBlockGraphBuilder                            *)
(* (gematria/granite/graph_builder.cc): the batched graph accumulators,    *)
(* the per-block scratch maps, the transactional AddBasicBlock, Reset and  *)
(* the derived views InstructionNodeMask and DeltaBlockIndex               *)
(* (specification Spec), and of the main function of                       *)
(* gematria/datasets/convert_bhive_to_llvm_exegesis_input.cc, which reads  *)
(* a BHive CSV file and writes llvm-exegesis snippets                      *)
(* (specification ConverterSpec), and of the retry loop of                 *)
(* tools/bb_annotator.cc, which maps the addresses a block faults at       *)
(* (specifications AnnotatorSpec and AnnotatorFairSpec).                   *)
(*                                                                         *)
(* Node and token indices are 0-based as in the source; the vectors are    *)
(* TLA+ sequences, so node i of the source is element i + 1 of node_types. *)
(***************************************************************************)
EXTENDS Integers, Sequences, FiniteSets, TLC

\* ------------------------------------------------------------------ bounds

\* The largest number of blocks held by the builder.
MaxBlocks == 3
\* The largest number of Instruction nodes held by the builder, the ones of
\* the block being added included.
MaxInstrs == 2
\* The largest number of lines the converter reads from its input file.
MaxLines == 3
\* The largest value of the flags blocks_per_json_file and max_bb_count.
MaxFlag == 2
\* The largest number of mappings bb_annotator adds.
MaxMappings == 3
\* The last page at which the block run by bb_annotator faults.
MaxPage == 2

\* --------------------------------------------------------------- constants

kInvalidNode == -1
kInvalidTokenIndex == -1

\* ------------------------------------------------------------------- state

VARIABLES
    \* Configuration fixed by the constructor.
    node_tokens,                 \* token string -> TokenIndex
    immediate_token,
    fp_immediate_token,
    address_token,
    memory_token,
    out_of_vocabulary_behavior,  \* "ReturnError" or "ReplaceToken"
    replacement_token,
    \* The accumulators.
    num_nodes_per_block,
    num_edges_per_block,
    node_types,
    node_features,
    edge_senders,
    edge_receivers,
    edge_types,
    global_features,
    \* The per-block scratch maps (members of the builder).
    register_nodes,
    alias_group_nodes,
    \* History: the last call, what it returned, the instruction lists of the
    \* blocks now in the builder.
    op,
    ret,
    added,
    \* History: a builder constructed anew at the last Reset (or at the
    \* start) and given the same calls since (b), what its last call returned
    \* (ret), and whether Reset was called at all (reset).
    fresh

config == <<node_tokens, immediate_token, fp_immediate_token, address_token,
            memory_token, out_of_vocabulary_behavior, replacement_token>>

accumulators == <<num_nodes_per_block, num_edges_per_block, node_types,
                  node_features, edge_senders, edge_receivers, edge_types,
                  global_features>>

scratch == <<register_nodes, alias_group_nodes>>

builder == <<config, accumulators, scratch, op, ret, added, fresh>>

\* The state of a run of convert_bhive_to_llvm_exegesis_input.
VARIABLES
    \* The command line flags.
    bhive_csv,                   \* "" when the flag is not given
    asm_output_dir,              \* "" disables the ASM output
    json_output_dir,             \* "" disables the JSON output
    annotator_implementation,    \* "exegesis", "fast" or "none"
    blocks_per_json_file,
    max_bb_count,
    report_progress_every,
    skip_no_loop_register,
    \* The locals of main.
    processed_snippets,
    file_counter,
    loop_register_failures,
    \* Where main is ("idle", "main", "loop", "flush", "exit", "crashed")
    \* and the value it returned (-1 before it returns).
    pc,
    exit_code,
    \* The files written, in the order they were opened: [name, contents].
    asm_files,
    json_files,
    \* History: the lines read, the last loop iteration ([line, outcome]),
    \* the [block, hex] pairs emitted, the number of calls of
    \* AnnotateBasicBlock, the output whose opening failed.
    lines_read,
    last,
    emitted,
    annotated,
    io_failure

flags == <<bhive_csv, asm_output_dir, json_output_dir,
           annotator_implementation, blocks_per_json_file, max_bb_count,
           report_progress_every, skip_no_loop_register>>

locals == <<processed_snippets, file_counter, loop_register_failures>>

files == <<asm_files, json_files>>

history == <<lines_read, last, emitted, annotated, io_failure>>

converter == <<flags, locals, pc, exit_code, files, history>>

\* The state of a run of bb_annotator.
VARIABLES
    \* BenchCode.Key.MemoryMappings: the mappings ([Address,
    \* MemoryValueName]) in the order they were pushed.
    MemoryMappings,
    \* RC: the runnable configuration built from BenchCode, that is the
    \* mappings it was built with (an optional).
    RC,
    \* BenchmarkResults: what the last call of runConfiguration gave
    \* ([kind, SegfaultAddress]; kind is "none" before the first call).
    BenchmarkResults,
    \* Where main is ("idle", "main", "loop", "run", "exit") and the value
    \* the process ended with (-1 before it ends).
    annotator_pc,
    annotator_exit_code,
    \* History: the mappings of the configuration that the last call of
    \* runConfiguration ran (an optional).
    ran_with

bb_annotator == <<MemoryMappings, RC, BenchmarkResults, annotator_pc,
                  annotator_exit_code, ran_with>>

vars == <<builder, converter, bb_annotator>>

\* No run of bb_annotator: the state of its variables under Spec and
\* ConverterSpec.
AnnotatorIdle ==
    /\ MemoryMappings = <<>> /\ RC = <<>>
    /\ BenchmarkResults = [kind |-> "none", SegfaultAddress |-> 0]
    /\ annotator_pc = "idle" /\ annotator_exit_code = -1
    /\ ran_with = <<>>

\* No run of the converter: the state of its variables under Spec.
ConverterIdle ==
    /\ bhive_csv = "" /\ asm_output_dir = "" /\ json_output_dir = ""
    /\ annotator_implementation = "fast"
    /\ blocks_per_json_file = 1 /\ max_bb_count = 0
    /\ report_progress_every = 1 /\ skip_no_loop_register = TRUE
    /\ processed_snippets = <<>> /\ file_counter = 0
    /\ loop_register_failures = 0
    /\ pc = "idle" /\ exit_code = -1
    /\ asm_files = <<>> /\ json_files = <<>>
    /\ lines_read = <<>> /\ last = [line |-> 0, outcome |-> "none"]
    /\ emitted = <<>> /\ annotated = 0 /\ io_failure = "none"


\* ----------------------------------------------------------------- helpers

\* The empty map.
EmptyMap == [x \in {} |-> kInvalidNode]

\* map[key] = value, inserting the key when it is absent.
MapPut(map, key, value) ==
    [x \in (DOMAIN map) \cup {key} |-> IF x = key THEN value ELSE map[x]]

\* LookupOrInsert: the map after map.insert({key, default_value}).
LookupOrInsert(map, key, default_value) ==
    IF key \in DOMAIN map THEN map ELSE MapPut(map, key, default_value)

\* std::vector::resize(n) of a vector of integers or enums: truncation, or
\* growth by value-initialised elements.
RECURSIVE Resize(_, _, _)
Resize(vec, n, zero) ==
    IF n <= Len(vec) THEN SubSeq(vec, 1, n)
    ELSE Resize(Append(vec, zero), n, zero)

RECURSIVE SumSeq(_)
SumSeq(s) == IF s = <<>> THEN 0 ELSE Head(s) + SumSeq(Tail(s))

\* All sequences over S of length at most n.
SeqsUpTo(S, n) == UNION {[1..k -> S] : k \in 0..n}

\* --------------------------------------------------------- the vocabulary

\* The node tokens given to the constructor, in order.
NodeTokenList ==
    <<"_IMMEDIATE_", "_FP_IMMEDIATE_", "_ADDRESS_", "_MEMORY_", "_UNK_",
      "MOV", "LOCK", "RAX", "RBX">>

\* MakeIndex: items[i] -> i, 0-based.  (A duplicate item is fatal; the list
\* above has none.)
MakeIndex(items) ==
    [t \in {items[i] : i \in 1..Len(items)} |->
        (CHOOSE i \in 1..Len(items) : items[i] = t) - 1]

\* FindTokenOrDie: the token's index (the constructor dies on a missing one).
FindTokenOrDie(tokens, token) == tokens[token]

num_node_tokens == Cardinality(DOMAIN node_tokens)

\* ------------------------------------------------------------- the builder

\* The builder as one value, threaded through the operators below.
Builder ==
    [node_tokens |-> node_tokens,
     immediate_token |-> immediate_token,
     fp_immediate_token |-> fp_immediate_token,
     address_token |-> address_token,
     memory_token |-> memory_token,
     out_of_vocabulary_behavior |-> out_of_vocabulary_behavior,
     replacement_token |-> replacement_token,
     num_nodes_per_block |-> num_nodes_per_block,
     num_edges_per_block |-> num_edges_per_block,
     node_types |-> node_types,
     node_features |-> node_features,
     edge_senders |-> edge_senders,
     edge_receivers |-> edge_receivers,
     edge_types |-> edge_types,
     global_features |-> global_features,
     register_nodes |-> register_nodes,
     alias_group_nodes |-> alias_group_nodes,
     fatal |-> FALSE]

\* The builder right after construction with the given OOV behaviour.
NewBuilder(behavior, replacement) ==
    LET tokens == MakeIndex(NodeTokenList)
    IN  [node_tokens |-> tokens,
         immediate_token |-> FindTokenOrDie(tokens, "_IMMEDIATE_"),
         fp_immediate_token |-> FindTokenOrDie(tokens, "_FP_IMMEDIATE_"),
         address_token |-> FindTokenOrDie(tokens, "_ADDRESS_"),
         memory_token |-> FindTokenOrDie(tokens, "_MEMORY_"),
         out_of_vocabulary_behavior |-> behavior,
         replacement_token |->
            IF behavior = "ReturnError" THEN kInvalidTokenIndex
            ELSE FindTokenOrDie(tokens, replacement),
         num_nodes_per_block |-> <<>>,
         num_edges_per_block |-> <<>>,
         node_types |-> <<>>,
         node_features |-> <<>>,
         edge_senders |-> <<>>,
         edge_receivers |-> <<>>,
         edge_types |-> <<>>,
         global_features |-> <<>>,
         register_nodes |-> EmptyMap,
         alias_group_nodes |-> EmptyMap,
         fatal |-> FALSE]

num_nodes(b) == Len(b.node_types)
num_edges(b) == Len(b.edge_senders)
num_graphs(b) == Len(b.num_nodes_per_block)

\* A failed ABSL_CHECK or ABSL_LOG(FATAL): the process dies.
Die(b) == [b EXCEPT !.fatal = TRUE]

\* AddNode(node_type, token_index): the builder with the node appended; the
\* new node's index is num_nodes of the builder before.
AddNodeWithIndex(b, node_type, token_index) ==
    [b EXCEPT !.node_types = Append(@, node_type),
              !.node_features = Append(@, token_index)]

\* AddNode that keeps kInvalidTokenIndex for a token it replaces.
AddNodeForgetsReplacement(b, node_type, token) ==
    IF token \in DOMAIN b.node_tokens
    THEN [b |-> AddNodeWithIndex(b, node_type, b.node_tokens[token]),
          node |-> num_nodes(b)]
    ELSE IF b.out_of_vocabulary_behavior = "ReturnError"
         THEN [b |-> b, node |-> kInvalidNode]
         ELSE [b |-> AddNodeWithIndex(b, node_type, kInvalidTokenIndex),
               node |-> num_nodes(b)]

\* AddNode(node_type, token): <<builder, new node index or kInvalidNode>>.
AddNode(b, node_type, token) ==
    IF token \in DOMAIN b.node_tokens
    THEN [b |-> AddNodeWithIndex(b, node_type, b.node_tokens[token]),
          node |-> num_nodes(b)]
    ELSE IF b.out_of_vocabulary_behavior = "ReturnError"
         THEN [b |-> b, node |-> kInvalidNode]
         ELSE [b |-> AddNodeWithIndex(b, node_type, b.replacement_token),
               node |-> num_nodes(b)]

AddEdge(b, edge_type, sender, receiver) ==
    IF sender >= 0 /\ sender < num_nodes(b)
       /\ receiver >= 0 /\ receiver < num_nodes(b)
    THEN [b EXCEPT !.edge_senders = Append(@, sender),
                   !.edge_receivers = Append(@, receiver),
                   !.edge_types = Append(@, edge_type)]
    ELSE Die(b)

\* A step of the builder gives [b, ok]: the builder after it and the bool it
\* returned.  "if (!step) return false; next": next runs on a success only.
Ok(b) == [b |-> b, ok |-> TRUE]
Failed(b) == [b |-> b, ok |-> FALSE]
AndThen(r, next(_)) == IF r.ok THEN next(r.b) ELSE r

\* operand_node = AddNode(kRegister, register_name), through the reference
\* into register_nodes_.
StoreRegisterNode(r, register_name) ==
    [r.b EXCEPT !.register_nodes[register_name] = r.node]

\* AddDependencyOnRegister after LookupOrInsert.
AddDependencyOnOperandNode(b, dependent_node, register_name, edge_type) ==
    IF b.register_nodes[register_name] = kInvalidNode
    THEN Failed(b)
    ELSE Ok(AddEdge(b, edge_type, b.register_nodes[register_name],
                    dependent_node))

\* The register's node is added when the map holds kInvalidNode for it.
AddRegisterNodeIfMissing(b, register_name) ==
    IF b.register_nodes[register_name] = kInvalidNode
    THEN StoreRegisterNode(AddNode(b, "Register", register_name),
                           register_name)
    ELSE b

\* AddDependencyOnRegister: [b, ok].
AddDependencyOnRegister(b, dependent_node, register_name, edge_type) ==
    AddDependencyOnOperandNode(
        AddRegisterNodeIfMissing(
            [b EXCEPT !.register_nodes =
                 LookupOrInsert(@, register_name, kInvalidNode)],
            register_name),
        dependent_node, register_name, edge_type)

\* ---------------------------------------------------------------- operands

RegisterOperand(name) == [type |-> "Register", register_name |-> name]
ImmediateValueOperand == [type |-> "ImmediateValue"]
FpImmediateValueOperand == [type |-> "FpImmediateValue"]
AddressOperand(base, index, segment, disp, scaling) ==
    [type |-> "Address", base_register |-> base, index_register |-> index,
     segment_register |-> segment, displacement |-> disp,
     scaling |-> scaling]
MemoryOperand(id) == [type |-> "Memory", alias_group_id |-> id]
UnknownOperand == [type |-> "Unknown"]

\* if (!register.empty()) if (!AddDependencyOnRegister(...)) return false;
AddAddressRegister(b, address_node, register_name, edge_type) ==
    IF register_name # ""
    THEN AddDependencyOnRegister(b, address_node, register_name, edge_type)
    ELSE Ok(b)

\* The same with a displacement node for a displacement of 0 too.
AddAddressDisplacementAlways(b, address_node, instruction_node, displacement) ==
    AddEdge(AddEdge(AddNodeWithIndex(b, "Immediate", b.immediate_token),
                    "AddressDisplacement", num_nodes(b), address_node),
            "InputOperands", address_node, instruction_node)

\* The displacement node and edge, then the edge to the instruction.
AddAddressDisplacement(b, address_node, instruction_node, displacement) ==
    AddEdge(IF displacement # 0
            THEN AddEdge(AddNodeWithIndex(b, "Immediate", b.immediate_token),
                         "AddressDisplacement", num_nodes(b), address_node)
            ELSE b,
            "InputOperands", address_node, instruction_node)

\* The kAddress case of AddInputOperand; the address node is num_nodes(b).
AddAddressInputOperand(b, instruction_node, address_tuple) ==
    AndThen(
      AndThen(
        AndThen(
          AddAddressRegister(
              AddNodeWithIndex(b, "AddressOperand", b.address_token),
              num_nodes(b), address_tuple.base_register,
              "AddressBaseRegister"),
          LAMBDA x : AddAddressRegister(x, num_nodes(b),
                         address_tuple.index_register,
                         "AddressIndexRegister")),
        LAMBDA x : AddAddressRegister(x, num_nodes(b),
                       address_tuple.segment_register,
                       "AddressSegmentRegister")),
      LAMBDA x : Ok(AddAddressDisplacement(x, num_nodes(b), instruction_node,
                        address_tuple.displacement)))

\* alias_group_node = AddNode(kMemoryOperand, memory_token_) when the map
\* holds kInvalidNode for the group.
AddAliasGroupNodeIfMissing(b, alias_group_id) ==
    IF b.alias_group_nodes[alias_group_id] = kInvalidNode
    THEN [AddNodeWithIndex(b, "MemoryOperand", b.memory_token)
             EXCEPT !.alias_group_nodes[alias_group_id] = num_nodes(b)]
    ELSE b

\* AddEdge(kInputOperands, alias_group_node, instruction_node).
AddAliasGroupEdge(b, instruction_node, alias_group_id) ==
    AddEdge(b, "InputOperands", b.alias_group_nodes[alias_group_id],
            instruction_node)

\* The kMemory case of AddInputOperand.
AddMemoryInputOperand(b, instruction_node, alias_group_id) ==
    Ok(AddAliasGroupEdge(
           AddAliasGroupNodeIfMissing(
               [b EXCEPT !.alias_group_nodes =
                    LookupOrInsert(@, alias_group_id, kInvalidNode)],
               alias_group_id),
           instruction_node, alias_group_id))

\* AddInputOperand: [b, ok]; ok is the returned bool, b.fatal a failed check.
AddInputOperand(b, instruction_node, operand) ==
    IF ~(instruction_node >= 0 /\ instruction_node < num_nodes(b))
    THEN Failed(Die(b))
    ELSE CASE operand.type = "Register" ->
                AddDependencyOnRegister(b, instruction_node,
                    operand.register_name, "InputOperands")
           [] operand.type = "ImmediateValue" ->
                Ok(AddEdge(AddNodeWithIndex(b, "Immediate",
                                            b.immediate_token),
                           "InputOperands", num_nodes(b), instruction_node))
           [] operand.type = "FpImmediateValue" ->
                Ok(AddEdge(AddNodeWithIndex(b, "FpImmediate",
                                            b.fp_immediate_token),
                           "InputOperands", num_nodes(b), instruction_node))
           [] operand.type = "Address" ->
                AddAddressInputOperand(b, instruction_node, operand)
           [] operand.type = "Memory" ->
                AddMemoryInputOperand(b, instruction_node,
                                      operand.alias_group_id)
           [] OTHER -> Failed(Die(b))

\* The kRegister case that does not record the new node in register_nodes_.
AddRegisterOutputOperandNoStore(r, instruction_node, register_name) ==
    IF r.node = kInvalidNode THEN Failed(r.b)
    ELSE Ok(AddEdge(r.b, "OutputOperands", instruction_node, r.node))

\* The kRegister case that points at the node register_nodes_ already has for
\* the register, when there is one.
AddRegisterOutputOperandReusesNode(r, instruction_node, register_name) ==
    IF r.node = kInvalidNode THEN Failed(r.b)
    ELSE IF register_name \in DOMAIN r.b.register_nodes
         THEN Ok(AddEdge(r.b, "OutputOperands", instruction_node,
                         r.b.register_nodes[register_name]))
         ELSE Ok([AddEdge(r.b, "OutputOperands", instruction_node, r.node)
                     EXCEPT !.register_nodes =
                         MapPut(r.b.register_nodes, register_name, r.node)])

\* The kRegister case of AddOutputOperand, after AddNode gave r.
AddRegisterOutputOperand(r, instruction_node, register_name) ==
    IF r.node = kInvalidNode THEN Failed(r.b)
    ELSE Ok([AddEdge(r.b, "OutputOperands", instruction_node, r.node)
               EXCEPT !.register_nodes = MapPut(@, register_name, r.node)])

\* The kMemory case of AddOutputOperand; the new node is num_nodes(b).
AddMemoryOutputOperand(b, instruction_node, alias_group_id) ==
    Ok(AddEdge([AddNodeWithIndex(b, "MemoryOperand", b.memory_token)
                  EXCEPT !.alias_group_nodes =
                      MapPut(@, alias_group_id, num_nodes(b))],
               "OutputOperands", instruction_node, num_nodes(b)))

\* AddOutputOperand: [b, ok].
AddOutputOperand(b, instruction_node, operand) ==
    IF ~(instruction_node >= 0 /\ instruction_node < num_nodes(b))
    THEN Failed(Die(b))
    ELSE CASE operand.type = "Register" ->
                AddRegisterOutputOperand(
                    AddNode(b, "Register", operand.register_name),
                    instruction_node, operand.register_name)
           [] operand.type = "Memory" ->
                AddMemoryOutputOperand(b, instruction_node,
                                       operand.alias_group_id)
           [] OTHER -> Failed(Die(b))

\* for (operand : operands) if (!AddInputOperand(...)) return false;
RECURSIVE AddInputOperands(_, _, _)
AddInputOperands(b, instruction_node, operands) ==
    IF operands = <<>> THEN Ok(b)
    ELSE AndThen(AddInputOperand(b, instruction_node, Head(operands)),
                 LAMBDA x : AddInputOperands(x, instruction_node,
                                             Tail(operands)))

\* for (operand : operands) if (!AddOutputOperand(...)) return false;
RECURSIVE AddOutputOperands(_, _, _)
AddOutputOperands(b, instruction_node, operands) ==
    IF operands = <<>> THEN Ok(b)
    ELSE AndThen(AddOutputOperand(b, instruction_node, Head(operands)),
                 LAMBDA x : AddOutputOperands(x, instruction_node,
                                              Tail(operands)))

\* One prefix: its node, and the edge to the instruction.
AddPrefix(r, instruction_node) ==
    IF r.node = kInvalidNode THEN Failed(r.b)
    ELSE Ok(AddEdge(r.b, "InstructionPrefix", r.node, instruction_node))

\* The loop over instruction.prefixes.
RECURSIVE AddPrefixes(_, _, _)
AddPrefixes(b, instruction_node, prefixes) ==
    IF prefixes = <<>> THEN Ok(b)
    ELSE AndThen(AddPrefix(AddNode(b, "Prefix", Head(prefixes)),
                           instruction_node),
                 LAMBDA x : AddPrefixes(x, instruction_node, Tail(prefixes)))

\* ------------------------------------------------------------ instructions

Instruction(mnemonic, prefixes, ins, implicit_ins, outs, implicit_outs) ==
    [mnemonic |-> mnemonic, prefixes |-> prefixes,
     input_operands |-> ins, implicit_input_operands |-> implicit_ins,
     output_operands |-> outs, implicit_output_operands |-> implicit_outs]

\* The same with the test previous_instruction_node > 0.
AddStructuralDependencyNotFromNodeZero(b, previous_instruction_node, instruction_node) ==
    IF previous_instruction_node > 0
    THEN AddEdge(b, "StructuralDependency", previous_instruction_node,
                 instruction_node)
    ELSE b

\* if (previous_instruction_node >= 0) AddEdge(kStructuralDependency, ...).
AddStructuralDependency(b, previous_instruction_node, instruction_node) ==
    IF previous_instruction_node >= 0
    THEN AddEdge(b, "StructuralDependency", previous_instruction_node,
                 instruction_node)
    ELSE b

\* The body of the loop over the instructions after the instruction's node
\* was added as node instruction_node: [b, ok].
AddInstructionParts(b, previous_instruction_node, instruction_node, instruction) ==
    AndThen(
      AndThen(
        AndThen(
          AndThen(
            AndThen(
              AddPrefixes(b, instruction_node, instruction.prefixes),
              LAMBDA x : Ok(AddStructuralDependency(x,
                                previous_instruction_node,
                                instruction_node))),
            LAMBDA x : AddInputOperands(x, instruction_node,
                           instruction.input_operands)),
          LAMBDA x : AddInputOperands(x, instruction_node,
                         instruction.implicit_input_operands)),
        LAMBDA x : AddOutputOperands(x, instruction_node,
                       instruction.output_operands)),
      LAMBDA x : AddOutputOperands(x, instruction_node,
                     instruction.implicit_output_operands))

\* The loop body that skips an instruction with an unknown mnemonic.
AddInstructionSkipsUnknown(n, previous_instruction_node, instruction) ==
    IF n.node = kInvalidNode THEN Ok(n.b)
    ELSE AddInstructionParts(n.b, previous_instruction_node, n.node,
                             instruction)

\* The body of the loop over the instructions, n being what AddNode gave for
\* the mnemonic: [b, ok].
AddInstruction(n, previous_instruction_node, instruction) ==
    IF n.node = kInvalidNode THEN Failed(n.b)
    ELSE AddInstructionParts(n.b, previous_instruction_node, n.node,
                             instruction)

\* for (instruction : instructions) { ... }: [b, ok].  The node of the
\* instruction being added is num_nodes(b).
RECURSIVE AddInstructions(_, _, _)
AddInstructions(b, previous_instruction_node, instructions) ==
    IF instructions = <<>> THEN Ok(b)
    ELSE AndThen(AddInstruction(
                     AddNode(b, "Instruction", Head(instructions).mnemonic),
                     previous_instruction_node, Head(instructions)),
                 LAMBDA x : AddInstructions(x, num_nodes(b),
                                            Tail(instructions)))

\* ------------------------------------------------------------- transaction

\* AddBasicBlockTransaction's constructor: the sizes it remembers.
AddBasicBlockTransaction(b) ==
    [prev_num_nodes_per_block_size |-> Len(b.num_nodes_per_block),
     prev_num_edges_per_block_size |-> Len(b.num_edges_per_block),
     prev_node_types_size |-> Len(b.node_types),
     prev_node_features_size |-> Len(b.node_features),
     prev_edge_senders_size |-> Len(b.edge_senders),
     prev_edge_receivers_size |-> Len(b.edge_receivers),
     prev_edge_types_size |-> Len(b.edge_receivers),
     prev_global_features_size |-> Len(b.global_features)]

\* GEMATRIA_CHECK_AND_RESIZE(vector_name).
CheckAndResize(b, vector_name, original_size, zero) ==
    IF b.fatal THEN b
    ELSE IF original_size <= Len(b[vector_name])
    THEN [b EXCEPT ![vector_name] = Resize(@, original_size, zero)]
    ELSE Die(b)

\* Rollback that forgets node_features.
RollbackKeepsNodeFeatures(txn, b) ==
    CheckAndResize(
      CheckAndResize(
        CheckAndResize(
          CheckAndResize(
            CheckAndResize(
              CheckAndResize(
                CheckAndResize(b, "num_nodes_per_block",
                               txn.prev_num_nodes_per_block_size, 0),
                "num_edges_per_block", txn.prev_num_edges_per_block_size, 0),
              "node_types", txn.prev_node_types_size, "Instruction"),
            "edge_senders", txn.prev_edge_senders_size, 0),
          "edge_receivers", txn.prev_edge_receivers_size, 0),
        "edge_types", txn.prev_edge_types_size, "StructuralDependency"),
      "global_features", txn.prev_global_features_size, <<>>)

\* Rollback that forgets the three edge vectors.
RollbackKeepsEdges(txn, b) ==
    CheckAndResize(
      CheckAndResize(
        CheckAndResize(
          CheckAndResize(
            CheckAndResize(b, "num_nodes_per_block",
                           txn.prev_num_nodes_per_block_size, 0),
            "num_edges_per_block", txn.prev_num_edges_per_block_size, 0),
          "node_types", txn.prev_node_types_size, "Instruction"),
        "node_features", txn.prev_node_features_size, 0),
      "global_features", txn.prev_global_features_size, <<>>)

\* AddBasicBlockTransaction::Rollback.
Rollback(txn, b) ==
    LET b1 == CheckAndResize(b, "num_nodes_per_block",
                             txn.prev_num_nodes_per_block_size, 0)
        b2 == CheckAndResize(b1, "num_edges_per_block",
                             txn.prev_num_edges_per_block_size, 0)
        b3 == CheckAndResize(b2, "node_types", txn.prev_node_types_size,
                             "Instruction")
        b4 == CheckAndResize(b3, "node_features",
                             txn.prev_node_features_size, 0)
        b5 == CheckAndResize(b4, "edge_senders",
                             txn.prev_edge_senders_size, 0)
        b6 == CheckAndResize(b5, "edge_receivers",
                             txn.prev_edge_receivers_size, 0)
        b7 == CheckAndResize(b6, "edge_types", txn.prev_edge_types_size,
                             "StructuralDependency")
    IN  CheckAndResize(b7, "global_features",
                       txn.prev_global_features_size, <<>>)

\* --------------------------------------------------------------- add block

\* for (i = prev_num_nodes; i < node_features_.size(); ++i)
\*   ++global_features[node_features_[i]];
\* An index outside the vector is a write out of bounds; no reachable state
\* has one (NodeFeaturesAreTokens below), and the EXCEPT then changes nothing.
RECURSIVE CountNodeFeatures(_, _, _)
CountNodeFeatures(features, node_feats, i) ==
    IF i >= Len(node_feats) THEN features
    ELSE CountNodeFeatures(
             [features EXCEPT ![node_feats[i + 1] + 1] = @ + 1],
             node_feats, i + 1)

\* CommitBlock recording the totals instead of the block's own counts.
CommitBlockTotals(b, prev_num_nodes, prev_num_edges) ==
    [b EXCEPT !.global_features =
                  Append(@, CountNodeFeatures(
                                [t \in 1..Cardinality(DOMAIN b.node_tokens)
                                    |-> 0],
                                b.node_features, prev_num_nodes)),
              !.num_nodes_per_block = Append(@, num_nodes(b)),
              !.num_edges_per_block = Append(@, num_edges(b))]

\* CommitBlock counting the tokens of every node, earlier blocks included.
CommitBlockCountsAll(b, prev_num_nodes, prev_num_edges) ==
    [b EXCEPT !.global_features =
                  Append(@, CountNodeFeatures(
                                [t \in 1..Cardinality(DOMAIN b.node_tokens)
                                    |-> 0],
                                b.node_features, 0)),
              !.num_nodes_per_block =
                  Append(@, num_nodes(b) - prev_num_nodes),
              !.num_edges_per_block =
                  Append(@, num_edges(b) - prev_num_edges)]

\* The tail of AddBasicBlockFromInstructions, after the loop succeeded.
CommitBlock(b, prev_num_nodes, prev_num_edges) ==
    LET zeros == [t \in 1..Cardinality(DOMAIN b.node_tokens) |-> 0]
        feats == CountNodeFeatures(zeros, b.node_features, prev_num_nodes)
    IN  [b EXCEPT !.global_features = Append(@, feats),
                  !.num_nodes_per_block =
                      Append(@, num_nodes(b) - prev_num_nodes),
                  !.num_edges_per_block =
                      Append(@, num_edges(b) - prev_num_edges)]

\* The end of AddBasicBlockFromInstructions, r being what the loop over the
\* instructions gave: the destructor of the transaction rolls back unless
\* Commit was reached.
EndAddBasicBlock(transaction, r, prev_num_nodes, prev_num_edges) ==
    IF r.b.fatal THEN [b |-> r.b, ret |-> FALSE]
    ELSE IF ~r.ok THEN [b |-> Rollback(transaction, r.b), ret |-> FALSE]
    ELSE [b |-> CommitBlock(r.b, prev_num_nodes, prev_num_edges),
          ret |-> TRUE]

\* ClearScratch that forgets alias_group_nodes_.
ClearScratchKeepsAliasGroups(b) == [b EXCEPT !.register_nodes = EmptyMap]

\* ClearScratch that clears nothing.
ClearScratchClearsNothing(b) == b

\* ClearScratch that forgets register_nodes_.
ClearScratchKeepsRegisters(b) == [b EXCEPT !.alias_group_nodes = EmptyMap]

\* register_nodes_.clear(); alias_group_nodes_.clear();
ClearScratch(b) ==
    [b EXCEPT !.register_nodes = EmptyMap, !.alias_group_nodes = EmptyMap]

\* AddBasicBlockFromInstructions: [b, ret]; b.fatal when the process died.
AddBasicBlockFromInstructions(b, instructions) ==
    EndAddBasicBlock(AddBasicBlockTransaction(b),
                     AddInstructions(ClearScratch(b), kInvalidNode,
                                     instructions),
                     num_nodes(b), num_edges(b))

\* Reset that forgets global_features_.
ResetKeepsGlobalFeatures(b) ==
    [b EXCEPT !.num_nodes_per_block = <<>>,
              !.num_edges_per_block = <<>>,
              !.node_types = <<>>,
              !.node_features = <<>>,
              !.edge_senders = <<>>,
              !.edge_receivers = <<>>,
              !.edge_types = <<>>]

\* Reset that also forgets the replacement token.
ResetLosesReplacementToken(b) ==
    [b EXCEPT !.num_nodes_per_block = <<>>,
              !.num_edges_per_block = <<>>,
              !.node_types = <<>>,
              !.node_features = <<>>,
              !.edge_senders = <<>>,
              !.edge_receivers = <<>>,
              !.edge_types = <<>>,
              !.global_features = <<>>,
              !.replacement_token = kInvalidTokenIndex]

\* BasicBlockGraphBuilder::Reset.
ResetBuilder(b) ==
    [b EXCEPT !.num_nodes_per_block = <<>>,
              !.num_edges_per_block = <<>>,
              !.node_types = <<>>,
              !.node_features = <<>>,
              !.edge_senders = <<>>,
              !.edge_receivers = <<>>,
              !.edge_types = <<>>,
              !.global_features = <<>>]

\* ------------------------------------------------------------ derived views

\* InstructionNodeMask.
InstructionNodeMask(b) ==
    [i \in 1..num_nodes(b) |-> b.node_types[i] = "Instruction"]

\* std::count(node_types_.begin(), node_types_.end(), kInstruction).
CountInstructions(types) ==
    Cardinality({i \in 1..Len(types) : types[i] = "Instruction"})

\* AdvanceBlock that moves on only when node > block_end.
RECURSIVE AdvanceBlockOffByOne(_, _, _)
AdvanceBlockOffByOne(b, node, s) ==
    IF s.oob \/ ~(node > s.block_end /\ s.block < num_graphs(b)) THEN s
    ELSE IF s.block + 1 >= num_graphs(b)
    THEN [s EXCEPT !.block = s.block + 1, !.oob = TRUE]
    ELSE AdvanceBlockOffByOne(b, node,
             [s EXCEPT !.block = s.block + 1,
                       !.block_end =
                           s.block_end + b.num_nodes_per_block[s.block + 2]])

\* while (node >= block_end && block < num_graphs()) { block++;
\*   block_end += num_nodes_per_block_[block]; }
\* A read of num_nodes_per_block_[num_graphs()] is out of bounds: oob.
RECURSIVE AdvanceBlock(_, _, _)
AdvanceBlock(b, node, s) ==
    IF s.oob \/ ~(node >= s.block_end /\ s.block < num_graphs(b)) THEN s
    ELSE IF s.block + 1 >= num_graphs(b)
    THEN [s EXCEPT !.block = s.block + 1, !.oob = TRUE]
    ELSE AdvanceBlock(b, node,
             [s EXCEPT !.block = s.block + 1,
                       !.block_end =
                           s.block_end + b.num_nodes_per_block[s.block + 2]])

\* The loop of DeltaBlockIndex over the nodes, from node on.
RECURSIVE DeltaBlockIndexLoop(_, _, _)
DeltaBlockIndexLoop(b, node, s) ==
    IF node >= Len(b.node_types) \/ s.oob THEN s
    ELSE IF b.node_types[node + 1] # "Instruction"
    THEN DeltaBlockIndexLoop(b, node + 1, s)
    ELSE LET a == AdvanceBlock(b, node, s)
         IN  DeltaBlockIndexLoop(b, node + 1,
                 [a EXCEPT !.delta_block_index = Append(@, a.block)])

\* DeltaBlockIndex: the vector built, and whether the three ABSL_CHECK_EQ
\* at the end hold (the process dies when one does not).
DeltaBlockIndex(b) ==
    LET num_instructions == CountInstructions(b.node_types)
        s == DeltaBlockIndexLoop(b, 0,
                 [delta_block_index |-> <<>>, block |-> -1,
                  block_end |-> 0, oob |-> FALSE])
    IN  [value |-> s.delta_block_index,
         oob |-> s.oob,
         checks |-> /\ ~s.oob
                    /\ s.block = num_graphs(b) - 1
                    /\ s.block_end = num_nodes(b)
                    /\ Len(s.delta_block_index) = num_instructions]

\* ------------------------------------------------------------------ inputs

\* The instructions the blocks are made of.  "BAD", "REPX", "XS" and "ZMM0"
\* are not in the vocabulary.
InstructionPool ==
    { \* MOV RAX <- immediate
      Instruction("MOV", <<>>, <<ImmediateValueOperand>>, <<>>,
                  <<RegisterOperand("RAX")>>, <<>>),
      \* reads and writes RAX and alias group 1, reads RBX
      Instruction("MOV", <<"LOCK">>,
                  <<RegisterOperand("RAX"), MemoryOperand(1)>>,
                  <<RegisterOperand("RBX")>>,
                  <<RegisterOperand("RAX")>>, <<MemoryOperand(1)>>),
      \* an address operand; writes RBX twice
      Instruction("MOV", <<>>,
                  <<AddressOperand("RBX", "RAX", "", 8, 4),
                    FpImmediateValueOperand>>, <<>>,
                  <<RegisterOperand("RBX")>>, <<RegisterOperand("RBX")>>),
      \* an unknown mnemonic
      Instruction("BAD", <<>>, <<RegisterOperand("RAX")>>, <<>>,
                  <<RegisterOperand("RAX")>>, <<>>),
      \* an unknown prefix after a known one
      Instruction("MOV", <<"LOCK", "REPX">>, <<ImmediateValueOperand>>,
                  <<>>, <<>>, <<>>),
      \* an unknown segment register in an address
      Instruction("MOV", <<>>,
                  <<RegisterOperand("RAX"),
                    AddressOperand("RAX", "", "XS", 0, 1)>>, <<>>,
                  <<MemoryOperand(2)>>, <<>>),
      \* an unknown implicit output register
      Instruction("MOV", <<>>, <<MemoryOperand(1)>>, <<>>,
                  <<RegisterOperand("RBX")>>, <<RegisterOperand("ZMM0")>>),
      \* an empty operand proto
      Instruction("MOV", <<>>, <<RegisterOperand("RBX"), UnknownOperand>>,
                  <<>>, <<>>, <<>>) }

\* ----------------------------------------------------------------- actions

\* The variables take the fields of builder b.
Becomes(b) ==
    /\ node_tokens' = b.node_tokens
    /\ immediate_token' = b.immediate_token
    /\ fp_immediate_token' = b.fp_immediate_token
    /\ address_token' = b.address_token
    /\ memory_token' = b.memory_token
    /\ out_of_vocabulary_behavior' = b.out_of_vocabulary_behavior
    /\ replacement_token' = b.replacement_token
    /\ num_nodes_per_block' = b.num_nodes_per_block
    /\ num_edges_per_block' = b.num_edges_per_block
    /\ node_types' = b.node_types
    /\ node_features' = b.node_features
    /\ edge_senders' = b.edge_senders
    /\ edge_receivers' = b.edge_receivers
    /\ edge_types' = b.edge_types
    /\ global_features' = b.global_features
    /\ register_nodes' = b.register_nodes
    /\ alias_group_nodes' = b.alias_group_nodes

\* The constructor, with either OOV behaviour.
Init ==
    \E behavior \in {"ReturnError", "ReplaceToken"} :
        LET b == NewBuilder(behavior, "_UNK_")
        IN  /\ node_tokens = b.node_tokens
            /\ immediate_token = b.immediate_token
            /\ fp_immediate_token = b.fp_immediate_token
            /\ address_token = b.address_token
            /\ memory_token = b.memory_token
            /\ out_of_vocabulary_behavior = b.out_of_vocabulary_behavior
            /\ replacement_token = b.replacement_token
            /\ num_nodes_per_block = b.num_nodes_per_block
            /\ num_edges_per_block = b.num_edges_per_block
            /\ node_types = b.node_types
            /\ node_features = b.node_features
            /\ edge_senders = b.edge_senders
            /\ edge_receivers = b.edge_receivers
            /\ edge_types = b.edge_types
            /\ global_features = b.global_features
            /\ register_nodes = b.register_nodes
            /\ alias_group_nodes = b.alias_group_nodes
            /\ op = "new"
            /\ ret = TRUE
            /\ added = <<>>
            /\ fresh = [b |-> b, ret |-> TRUE, reset |-> FALSE]
            /\ ConverterIdle
            /\ AnnotatorIdle

\* A call of AddBasicBlockFromInstructions.  A fatal check ends the process:
\* nothing is enabled afterwards.  The history builder is given the same
\* call (the same result when it equals the builder).
AddBasicBlock ==
    /\ op # "fatal"
    /\ UNCHANGED <<converter, bb_annotator>>
    /\ num_graphs(Builder) < MaxBlocks
    /\ \E instructions \in SeqsUpTo(InstructionPool,
                               MaxInstrs - CountInstructions(node_types)) :
          \E r \in {AddBasicBlockFromInstructions(Builder, instructions)} :
            \E f \in {IF fresh.b = Builder THEN r
                      ELSE AddBasicBlockFromInstructions(fresh.b,
                                                         instructions)} :
              /\ fresh' = [b |-> f.b, ret |-> f.ret, reset |-> fresh.reset]
              /\ IF r.b.fatal
                 THEN /\ op' = "fatal"
                      /\ UNCHANGED <<config, accumulators, scratch, ret,
                                     added>>
                 ELSE /\ Becomes(r.b)
                      /\ op' = "add"
                      /\ ret' = r.ret
                      /\ added' = IF r.ret THEN Append(added, instructions)
                                  ELSE added

\* A call of Reset.
Reset ==
    /\ op # "fatal"
    /\ UNCHANGED <<converter, bb_annotator>>
    /\ Becomes(ResetBuilder(Builder))
    /\ op' = "reset"
    /\ ret' = ret
    /\ added' = <<>>
    /\ fresh' = [b |-> NewBuilder(out_of_vocabulary_behavior, "_UNK_"),
                 ret |-> ret, reset |-> TRUE]

Next == AddBasicBlock \/ Reset

Spec == Init /\ [][Next]_vars

\* ------------------------------------------------------- block geometry

\* The index of the first node of block g (1-based g), and one past its last.
BlockStart(g) == SumSeq(SubSeq(num_nodes_per_block, 1, g - 1))
BlockEnd(g) == BlockStart(g) + num_nodes_per_block[g]
\* The same for the edges of block g.
EdgeStart(g) == SumSeq(SubSeq(num_edges_per_block, 1, g - 1))
EdgeEnd(g) == EdgeStart(g) + num_edges_per_block[g]

\* ------------------------------------------------------------------ claims

\* C1: when AddBasicBlockFromInstructions returns false, each of the eight
\* accumulators has the size and the content it had before the call.
C1_FailedAddRestoresAccumulators ==
    [][(op' = "add" /\ ret' = FALSE) => accumulators' = accumulators]_vars

\* A failed call has just rolled back nodes and edges it had appended: a
\* scratch entry still names a node past the end of node_types, and the
\* builder holds earlier nodes and edges.
C1_Witness ==
    /\ op = "add" /\ ret = FALSE
    /\ Len(node_types) > 0 /\ Len(edge_senders) > 0
    /\ \E name \in DOMAIN register_nodes :
           register_nodes[name] >= Len(node_types)

\* C2: after every add (successful or rolled back) and every reset the
\* parallel vectors have equal lengths and the per-block counts sum to the
\* numbers of nodes and edges.
C2_SizesAgree ==
    op # "fatal" =>
        /\ Len(node_types) = Len(node_features)
        /\ Len(edge_senders) = Len(edge_receivers)
        /\ Len(edge_receivers) = Len(edge_types)
        /\ Len(num_nodes_per_block) = Len(num_edges_per_block)
        /\ SumSeq(num_nodes_per_block) = Len(node_types)
        /\ SumSeq(num_edges_per_block) = Len(edge_senders)

\* A rolled back add on a builder that holds two blocks with edges.
C2_Witness ==
    /\ op = "add" /\ ret = FALSE
    /\ Len(num_nodes_per_block) = 2
    /\ num_edges_per_block[2] > 0
    /\ \E name \in DOMAIN register_nodes :
           register_nodes[name] >= Len(node_types)

\* C3: one global_features vector per block; the vector of block g has one
\* entry per vocabulary token, entry t counts the nodes of block g whose
\* node_features is t, and the entries sum to num_nodes_per_block[g].
C3_GlobalFeaturesCountTokens ==
    op # "fatal" =>
        /\ Len(global_features) = Len(num_nodes_per_block)
        /\ \A g \in 1..Len(global_features) :
              /\ Len(global_features[g]) = num_node_tokens
              /\ \A t \in 0..(num_node_tokens - 1) :
                    global_features[g][t + 1] =
                        Cardinality({i \in (BlockStart(g) + 1)..BlockEnd(g) :
                                        node_features[i] = t})
              /\ SumSeq(global_features[g]) = num_nodes_per_block[g]

\* Two blocks with nodes and different token counts.
C3_Witness ==
    /\ op = "add" /\ ret = TRUE
    /\ Len(global_features) = 2
    /\ num_nodes_per_block[1] > 0
    /\ num_nodes_per_block[2] > 0
    /\ global_features[1] # global_features[2]

\* C4: every edge endpoint is the index of a node the builder holds.
C4_EdgeEndpointsValid ==
    op # "fatal" =>
        \A e \in 1..Len(edge_senders) :
            /\ 0 <= edge_senders[e] /\ edge_senders[e] < Len(node_types)
            /\ 0 <= edge_receivers[e] /\ edge_receivers[e] < Len(node_types)

\* Edges survive a rollback that removed nodes and edges.
C4_Witness ==
    /\ op = "add" /\ ret = FALSE
    /\ Len(edge_senders) > 0
    /\ \E name \in DOMAIN register_nodes :
           register_nodes[name] > Len(node_types)

\* The index of the j-th Instruction node (j from 1), in index order.
InstructionNodeAt(j) ==
    CHOOSE n \in 0..(Len(node_types) - 1) :
        /\ node_types[n + 1] = "Instruction"
        /\ Cardinality({i \in 1..n : node_types[i] = "Instruction"}) = j - 1

NonDecreasing(s) == \A j \in 1..(Len(s) - 1) : s[j] <= s[j + 1]

\* C5: once a block was added, DeltaBlockIndex passes its three checks and
\* gives one entry per Instruction node, non-decreasing, the last one being
\* num_blocks - 1; blocks with no instruction included.
C5_DeltaBlockIndexChecksHold ==
    (op # "fatal" /\ Len(num_nodes_per_block) > 0) =>
        \A d \in {DeltaBlockIndex(Builder)} :
            /\ d.checks
            /\ Len(d.value) = CountInstructions(node_types)
            /\ NonDecreasing(d.value)
            /\ Len(d.value) > 0
            /\ d.value[Len(d.value)] = Len(num_nodes_per_block) - 1

BlocksToAdd ==
    SeqsUpTo(InstructionPool, MaxInstrs - CountInstructions(node_types))

\* The elements of a finite set of integers, in increasing order.
RECURSIVE SortedSeq(_)
SortedSeq(S) ==
    IF S = {} THEN <<>>
    ELSE <<CHOOSE x \in S : \A y \in S : x <= y>>
         \o SortedSeq(S \ {CHOOSE x \in S : \A y \in S : x <= y})

\* The nodes of block g whose type is in Types, in index order.
NodesOfBlock(g, Types) ==
    SortedSeq({n \in BlockStart(g)..(BlockEnd(g) - 1) :
                  node_types[n + 1] \in Types})

\* The edges of block g (1-based positions in the edge vectors).
EdgesOfBlock(g) == (EdgeStart(g) + 1)..EdgeEnd(g)

RECURSIVE Concat(_)
Concat(seqs) == IF seqs = <<>> THEN <<>> ELSE Head(seqs) \o Concat(Tail(seqs))

\* The register names an operand names.
RegistersOfOperand(operand) ==
    CASE operand.type = "Register" -> {operand.register_name}
      [] operand.type = "Address" ->
            {operand.base_register, operand.index_register,
             operand.segment_register} \ {""}
      [] OTHER -> {}

AllOperands(instruction) ==
    instruction.input_operands \o instruction.implicit_input_operands
    \o instruction.output_operands \o instruction.implicit_output_operands

\* The tokens of an instruction that are looked up by name.
TokensOf(instruction) ==
    {instruction.mnemonic}
    \cup {instruction.prefixes[k] : k \in 1..Len(instruction.prefixes)}
    \cup UNION {RegistersOfOperand(AllOperands(instruction)[k]) :
                   k \in 1..Len(AllOperands(instruction))}

HasOutOfVocabularyToken(instructions) ==
    \E i \in 1..Len(instructions) :
        \E t \in TokensOf(instructions[i]) : t \notin DOMAIN node_tokens

\* The index a token named `name` gets under ReplaceToken.
TokenOrReplacement(name) ==
    IF name \in DOMAIN node_tokens THEN node_tokens[name]
    ELSE replacement_token

\* What an input operand reads: the register or alias group (res), and the
\* type of the edge the read gives.
ReadsOfOperand(operand) ==
    CASE operand.type = "Register" ->
            <<[res |-> <<"Register", operand.register_name>>,
               edge |-> "InputOperands"]>>
      [] operand.type = "Memory" ->
            <<[res |-> <<"MemoryOperand", operand.alias_group_id>>,
               edge |-> "InputOperands"]>>
      [] operand.type = "Address" ->
            (IF operand.base_register = "" THEN <<>>
             ELSE <<[res |-> <<"Register", operand.base_register>>,
                     edge |-> "AddressBaseRegister"]>>)
            \o (IF operand.index_register = "" THEN <<>>
                ELSE <<[res |-> <<"Register", operand.index_register>>,
                        edge |-> "AddressIndexRegister"]>>)
            \o (IF operand.segment_register = "" THEN <<>>
                ELSE <<[res |-> <<"Register", operand.segment_register>>,
                        edge |-> "AddressSegmentRegister"]>>)
      [] OTHER -> <<>>

\* The reads of an instruction, in operand order.
ReadsOf(instruction) ==
    Concat([k \in 1..Len(instruction.input_operands \o
                         instruction.implicit_input_operands) |->
               ReadsOfOperand((instruction.input_operands \o
                               instruction.implicit_input_operands)[k])])

\* What an output operand writes.
WritesOfOperand(operand) ==
    CASE operand.type = "Register" -> <<<<"Register", operand.register_name>>>>
      [] operand.type = "Memory" ->
            <<<<"MemoryOperand", operand.alias_group_id>>>>
      [] OTHER -> <<>>

\* The registers and alias groups an instruction writes, in operand order.
WritesOf(instruction) ==
    Concat([k \in 1..Len(instruction.output_operands \o
                         instruction.implicit_output_operands) |->
               WritesOfOperand((instruction.output_operands \o
                                instruction.implicit_output_operands)[k])])

\* The versions (Register and MemoryOperand nodes) a block should create, in
\* order: one at the first read of a register or alias group that no earlier
\* operand of the block read or wrote, one at every write.
RECURSIVE VersionsAfterReads(_, _, _)
VersionsAfterReads(versions, reads, i) ==
    IF reads = <<>> THEN versions
    ELSE VersionsAfterReads(
             IF \E m \in 1..Len(versions) : versions[m].res = Head(reads).res
             THEN versions
             ELSE Append(versions, [res |-> Head(reads).res, instr |-> i,
                                    kind |-> "read"]),
             Tail(reads), i)

RECURSIVE VersionsAfterWrites(_, _, _)
VersionsAfterWrites(versions, writes, i) ==
    IF writes = <<>> THEN versions
    ELSE VersionsAfterWrites(
             Append(versions, [res |-> Head(writes), instr |-> i,
                               kind |-> "write"]),
             Tail(writes), i)

RECURSIVE VersionsFrom(_, _, _)
VersionsFrom(versions, instructions, i) ==
    IF i > Len(instructions) THEN versions
    ELSE VersionsFrom(
             VersionsAfterWrites(
                 VersionsAfterReads(versions, ReadsOf(instructions[i]), i),
                 WritesOf(instructions[i]), i),
             instructions, i + 1)

Versions(instructions) == VersionsFrom(<<>>, instructions, 1)

\* The version a read of res by instruction i should see: the last write by
\* an earlier instruction, else the version made by the first read.
CurrentVersion(versions, res, i) ==
    IF \E m \in 1..Len(versions) :
           versions[m].res = res /\ versions[m].kind = "write"
           /\ versions[m].instr < i
    THEN CHOOSE m \in 1..Len(versions) :
             /\ versions[m].res = res /\ versions[m].kind = "write"
             /\ versions[m].instr < i
             /\ \A k \in (m + 1)..Len(versions) :
                    ~(versions[k].res = res /\ versions[k].kind = "write"
                      /\ versions[k].instr < i)
    ELSE CHOOSE m \in 1..Len(versions) :
             versions[m].res = res /\ versions[m].kind = "read"

\* One past the last node made for instruction i of block g.
InstructionEnd(g, i) ==
    IF i < Len(NodesOfBlock(g, {"Instruction"}))
    THEN NodesOfBlock(g, {"Instruction"})[i + 1]
    ELSE BlockEnd(g)

\* The edges of block g from a Register or MemoryOperand node to a node made
\* for instruction i, in edge order.
ReadEdges(g, i) ==
    SortedSeq({e \in EdgesOfBlock(g) :
        /\ node_types[edge_senders[e] + 1] \in {"Register", "MemoryOperand"}
        /\ NodesOfBlock(g, {"Instruction"})[i] <= edge_receivers[e]
        /\ edge_receivers[e] < InstructionEnd(g, i)})

\* ------------------------------------- out-of-vocabulary tokens (C7, C8)

\* C7: under the ReturnError policy, a call of add_block that returns,
\* returns false exactly when some mnemonic, prefix or register name of the
\* block is not in the vocabulary, and true when all are in the vocabulary.
\* (A call that reaches an empty operand proto does not return.)
C7_ReturnErrorFalseIffOutOfVocabulary ==
    (op # "fatal" /\ out_of_vocabulary_behavior = "ReturnError") =>
        \A instructions \in BlocksToAdd :
            \A r \in {AddBasicBlockFromInstructions(Builder, instructions)} :
                ~r.b.fatal =>
                    (r.ret = ~HasOutOfVocabularyToken(instructions))

\* A call failed under ReturnError in a builder that still holds a block, and
\* both a block with an unknown register and a block without unknown tokens
\* can be added next.
C7_Witness ==
    /\ op = "add" /\ ret = FALSE
    /\ out_of_vocabulary_behavior = "ReturnError"
    /\ Len(added) > 0 /\ Len(node_types) > 0
    /\ \E instructions \in BlocksToAdd :
           /\ HasOutOfVocabularyToken(instructions)
           /\ instructions[1].mnemonic \in DOMAIN node_tokens
           /\ ~AddBasicBlockFromInstructions(Builder, instructions).ret
    /\ \E instructions \in BlocksToAdd :
           /\ instructions # <<>>
           /\ AddBasicBlockFromInstructions(Builder, instructions).ret

\* The names of the tokens of the nodes of the given type that the block
\* should have, in node order.
MnemonicsOf(instructions) ==
    [i \in 1..Len(instructions) |-> instructions[i].mnemonic]

PrefixesOf(instructions) ==
    Concat([i \in 1..Len(instructions) |-> instructions[i].prefixes])

RegisterVersionNamesOf(instructions) ==
    [m \in 1..Len(SelectSeq(Versions(instructions),
                            LAMBDA v : v.res[1] = "Register")) |->
        SelectSeq(Versions(instructions),
                  LAMBDA v : v.res[1] = "Register")[m].res[2]]

\* The nodes of the given type of block g carry the indices of the names.
FeaturesAre(g, node_type, names) ==
    \A nodes \in {NodesOfBlock(g, {node_type})} :
        /\ Len(nodes) = Len(names)
        /\ \A m \in 1..Len(nodes) :
               node_features[nodes[m] + 1] = TokenOrReplacement(names[m])

\* C8: under the ReplaceToken policy add_block never returns false, and in
\* every block of the builder each Instruction, Prefix and Register node has
\* the index of its mnemonic, prefix or register name when that is in the
\* vocabulary and the index of the replacement token otherwise.
C8_ReplaceTokenFeatures ==
    out_of_vocabulary_behavior = "ReplaceToken" =>
        /\ ret = TRUE
        /\ replacement_token = node_tokens["_UNK_"]
        /\ \A g \in 1..Len(added) :
               /\ FeaturesAre(g, "Instruction", MnemonicsOf(added[g]))
               /\ FeaturesAre(g, "Prefix", PrefixesOf(added[g]))
               /\ FeaturesAre(g, "Register",
                              RegisterVersionNamesOf(added[g]))

\* A block with an unknown register or prefix or mnemonic was added under
\* ReplaceToken; it has a node with the replacement index and a Register,
\* Prefix or Instruction node with another index.
C8_Witness ==
    /\ op = "add" /\ ret = TRUE
    /\ out_of_vocabulary_behavior = "ReplaceToken"
    /\ \E g \in 1..Len(added) :
           /\ HasOutOfVocabularyToken(added[g])
           /\ \E n \in BlockStart(g)..(BlockEnd(g) - 1) :
                  node_features[n + 1] = replacement_token
           /\ \E n \in BlockStart(g)..(BlockEnd(g) - 1) :
                  /\ node_types[n + 1] \in {"Instruction", "Prefix",
                                            "Register"}
                  /\ node_features[n + 1] # replacement_token

\* ------------------------------------------------ last-writer rule (C9)

\* The edges of block g that arrive at node n.
EdgesInto(g, n) == {e \in EdgesOfBlock(g) : edge_receivers[e] = n}

\* Block g has one Register or MemoryOperand node per version of
\* instructions, in order; a version made by a write of instruction i has
\* one edge into it, an OutputOperands edge from the node of instruction i,
\* and a version made by a read has none.
VersionNodesMatch(g, versions, nodes, instruction_nodes) ==
    /\ Len(nodes) = Len(versions)
    /\ \A m \in 1..Len(nodes) :
           /\ node_types[nodes[m] + 1] = versions[m].res[1]
           /\ IF versions[m].kind = "write"
              THEN /\ Cardinality(EdgesInto(g, nodes[m])) = 1
                   /\ \A e \in EdgesInto(g, nodes[m]) :
                          /\ edge_types[e] = "OutputOperands"
                          /\ edge_senders[e] =
                                 instruction_nodes[versions[m].instr]
              ELSE EdgesInto(g, nodes[m]) = {}

\* The reads of instruction i of block g get their edges, in operand order,
\* from the node of the version current for instruction i; a direct read is
\* received by the instruction node, an address register by an address node
\* of the instruction.
ReadEdgesMatch(g, i, versions, nodes, reads, edges) ==
    /\ Len(edges) = Len(reads)
    /\ \A k \in 1..Len(edges) :
           /\ edge_types[edges[k]] = reads[k].edge
           /\ edge_senders[edges[k]] =
                  nodes[CurrentVersion(versions, reads[k].res, i)]
           /\ IF reads[k].edge = "InputOperands"
              THEN edge_receivers[edges[k]] =
                       NodesOfBlock(g, {"Instruction"})[i]
              ELSE node_types[edge_receivers[edges[k]] + 1] =
                       "AddressOperand"

\* C9: in every block of the builder, a read of a register or alias group by
\* instruction i gets its edge from the node made by the last write by an
\* earlier instruction of the block, else from the one node made at the
\* first read; a read makes a node only then, every write makes one node
\* with an OutputOperands edge from its instruction, and no instruction
\* reads what it writes itself.
C9_LastWriterRule ==
    \A g \in 1..Len(added) :
        \A versions \in {Versions(added[g])} :
            \A nodes \in {NodesOfBlock(g, {"Register", "MemoryOperand"})} :
                /\ Len(NodesOfBlock(g, {"Instruction"})) = Len(added[g])
                /\ VersionNodesMatch(g, versions, nodes,
                                     NodesOfBlock(g, {"Instruction"}))
                /\ \A i \in 1..Len(added[g]) :
                       ReadEdgesMatch(g, i, versions, nodes,
                                      ReadsOf(added[g][i]), ReadEdges(g, i))

\* A block of two instructions is in the builder whose second instruction
\* reads a register that both instructions write and that the first one
\* read too, so that the block has three versions of it.
C9_Witness ==
    /\ op = "add" /\ ret = TRUE
    /\ \E g \in 1..Len(added) :
           /\ Len(added[g]) = 2
           /\ \E k \in 1..Len(ReadsOf(added[g][2])) :
                  \E res \in {ReadsOf(added[g][2])[k].res} :
                      /\ \E w \in 1..Len(WritesOf(added[g][1])) :
                             WritesOf(added[g][1])[w] = res
                      /\ \E w \in 1..Len(WritesOf(added[g][2])) :
                             WritesOf(added[g][2])[w] = res
                      /\ \E w \in 1..Len(ReadsOf(added[g][1])) :
                             ReadsOf(added[g][1])[w].res = res
                      /\ Cardinality({m \in 1..Len(Versions(added[g])) :
                             Versions(added[g])[m].res = res}) = 3

\* ------------------------------------------- blocks are independent (C10)

\* The part of sequence s after its first n elements.
DropFirst(s, n) == SubSeq(s, n + 1, Len(s))

\* Builder after has the vectors of before followed by those of builder
\* alone, the edge endpoints of alone shifted by the nodes of before.
AppendsShifted(before, after, alone) ==
    /\ after.node_types = before.node_types \o alone.node_types
    /\ after.node_features = before.node_features \o alone.node_features
    /\ after.edge_types = before.edge_types \o alone.edge_types
    /\ after.edge_senders = before.edge_senders \o
           [k \in 1..Len(alone.edge_senders) |->
               alone.edge_senders[k] + num_nodes(before)]
    /\ after.edge_receivers = before.edge_receivers \o
           [k \in 1..Len(alone.edge_receivers) |->
               alone.edge_receivers[k] + num_nodes(before)]
    /\ after.num_nodes_per_block =
           before.num_nodes_per_block \o alone.num_nodes_per_block
    /\ after.num_edges_per_block =
           before.num_edges_per_block \o alone.num_edges_per_block
    /\ after.global_features =
           before.global_features \o alone.global_features

\* C10: in every state reached by add_block and reset calls, adding a block
\* succeeds iff adding it to a new builder with the same vocabulary and
\* policy succeeds, and it appends what the new builder gets, with the edge
\* endpoints shifted by the number of nodes already present.
C10_AddIsAddToEmptyShifted ==
    [](op # "fatal" =>
        \A instructions \in BlocksToAdd :
            \A r \in {AddBasicBlockFromInstructions(Builder, instructions)} :
                \A alone \in {AddBasicBlockFromInstructions(
                                  NewBuilder(out_of_vocabulary_behavior,
                                             "_UNK_"), instructions)} :
                    /\ r.b.fatal = alone.b.fatal
                    /\ ~r.b.fatal =>
                           /\ r.ret = alone.ret
                           /\ AppendsShifted(Builder, r.b, alone.b))

\* A second block was added that reads a register and an alias group which
\* the first block wrote, and its nodes for them are its own.
C10_Witness ==
    /\ op = "add" /\ ret = TRUE
    /\ Len(added) = 2 /\ added[1] # <<>> /\ added[2] # <<>>
    /\ \A kind \in {"Register", "MemoryOperand"} :
           \E k \in 1..Len(ReadsOf(added[2][1])) :
               /\ ReadsOf(added[2][1])[k].res[1] = kind
               /\ \E w \in 1..Len(WritesOf(added[1][1])) :
                      WritesOf(added[1][1])[w] = ReadsOf(added[2][1])[k].res
    /\ \A e \in EdgesOfBlock(2) : edge_senders[e] >= BlockStart(2)

\* --------------------------------------------------------- Reset (C11, C12)

\* The accumulators of builder b.
AccumulatorsOf(b) ==
    <<b.num_nodes_per_block, b.num_edges_per_block, b.node_types,
      b.node_features, b.edge_senders, b.edge_receivers, b.edge_types,
      b.global_features>>

\* C11: the calls of add_block made after a reset return what they return on
\* a newly constructed builder with the same vocabulary and policy, and
\* leave the same accumulator contents, whatever the builder held before the
\* reset; a call ends the process on both or on neither.
C11_ResetThenReplayIsFresh ==
    /\ fresh.b.fatal = (op = "fatal")
    /\ op = "add" => ret = fresh.ret
    /\ op # "fatal" => accumulators = AccumulatorsOf(fresh.b)

\* Reset was called and a block with registers was added since; the builder
\* holds this block only.
C11_Witness ==
    /\ fresh.reset
    /\ op = "add" /\ ret = TRUE
    /\ Len(added) = 1 /\ Len(node_types) > 2 /\ Len(edge_types) > 2
    /\ register_nodes = fresh.b.register_nodes
    /\ DOMAIN register_nodes # {}

\* C12: reset leaves the eight accumulators empty and does not change the
\* vocabulary, the four distinguished token indices, the replacement token
\* and the OOV policy.
C12_ResetClearsAccumulatorsOnly ==
    [][op' = "reset" =>
          /\ accumulators' = <<<<>>, <<>>, <<>>, <<>>, <<>>, <<>>, <<>>, <<>>>>
          /\ config' = config]_vars

\* Reset was called on a builder that held nodes and edges (its scratch maps
\* still name registers) and that replaces unknown tokens.
C12_Witness ==
    /\ op = "reset"
    /\ DOMAIN register_nodes # {}
    /\ DOMAIN alias_group_nodes # {}
    /\ out_of_vocabulary_behavior = "ReplaceToken"
    /\ replacement_token = node_tokens["_UNK_"]
    /\ node_types = <<>> /\ global_features = <<>>


\* ------------------------------------------------ address operands (C27)

\* The Address operands among the input operands of an instruction, in
\* operand order.
AddressOperandsOf(instruction) ==
    SelectSeq(instruction.input_operands
                  \o instruction.implicit_input_operands,
              LAMBDA operand : operand.type = "Address")

\* The AddressOperand nodes made for instruction i of block g, in order.
AddressNodes(g, i) ==
    SortedSeq({n \in NodesOfBlock(g, {"Instruction"})[i]
                         ..(InstructionEnd(g, i) - 1) :
                  node_types[n + 1] = "AddressOperand"})

\* The edges of block g that leave node n.
EdgesFrom(g, n) == {e \in EdgesOfBlock(g) : edge_senders[e] = n}

\* The edges an address operand should give its address node, in order:
\* the type of the edge and the register it comes from ("" for the
\* displacement).
AddressEdgesOf(operand) ==
    (IF operand.base_register = "" THEN <<>>
     ELSE <<[edge |-> "AddressBaseRegister",
             register |-> operand.base_register]>>)
    \o (IF operand.index_register = "" THEN <<>>
        ELSE <<[edge |-> "AddressIndexRegister",
                register |-> operand.index_register]>>)
    \o (IF operand.segment_register = "" THEN <<>>
        ELSE <<[edge |-> "AddressSegmentRegister",
                register |-> operand.segment_register]>>)
    \o (IF operand.displacement = 0 THEN <<>>
        ELSE <<[edge |-> "AddressDisplacement", register |-> ""]>>)

\* Address node a of block g, made for instruction_node, has the edges of
\* operand: into it the edges of into (in edge order), out of it the one
\* edge to the instruction, the last of them all.
AddressNodeMatches(g, instruction_node, a, operand, into) ==
    /\ node_features[a + 1] = address_token
    /\ Len(into) = Len(AddressEdgesOf(operand))
    /\ \A k \in 1..Len(into) :
           /\ edge_types[into[k]] = AddressEdgesOf(operand)[k].edge
           /\ IF AddressEdgesOf(operand)[k].edge = "AddressDisplacement"
              THEN /\ node_types[edge_senders[into[k]] + 1] = "Immediate"
                   /\ node_features[edge_senders[into[k]] + 1]
                          = immediate_token
                   /\ edge_senders[into[k]] > a
                   /\ EdgesFrom(g, edge_senders[into[k]]) = {into[k]}
                   /\ EdgesInto(g, edge_senders[into[k]]) = {}
              ELSE /\ node_types[edge_senders[into[k]] + 1] = "Register"
                   /\ node_features[edge_senders[into[k]] + 1] =
                          TokenOrReplacement(
                              AddressEdgesOf(operand)[k].register)
    /\ Cardinality(EdgesFrom(g, a)) = 1
    /\ \A e \in EdgesFrom(g, a) :
           /\ edge_types[e] = "InputOperands"
           /\ edge_receivers[e] = instruction_node
           /\ \A k \in 1..Len(into) : into[k] < e

\* The builder after the calls of add_block with the given blocks, all of
\* which return true.
RECURSIVE Replay(_, _)
Replay(b, blocks) ==
    IF blocks = <<>> THEN b
    ELSE Replay(AddBasicBlockFromInstructions(b, Head(blocks)).b,
                Tail(blocks))

\* The instructions with the scaling of every address operand set to 1.
Unscaled(operands) ==
    [k \in 1..Len(operands) |->
        IF operands[k].type = "Address"
        THEN [operands[k] EXCEPT !.scaling = 1] ELSE operands[k]]

WithoutScaling(instructions) ==
    [i \in 1..Len(instructions) |->
        [instructions[i] EXCEPT
            !.input_operands = Unscaled(@),
            !.implicit_input_operands = Unscaled(@)]]

\* C27: in every block of the builder, each Address input operand of an
\* instruction has one AddressOperand node with the address token; the
\* node receives one edge per non-empty base, index and segment register,
\* of the type of the register's role and from a node of that register,
\* and one AddressDisplacement edge from an Immediate node of its own iff
\* the displacement is not 0; it sends one InputOperands edge to the
\* instruction, added after the others.  The scaling changes nothing.
C27_AddressOperandNodes ==
    /\ \A g \in 1..Len(added) :
           \A i \in 1..Len(added[g]) :
               /\ Len(AddressNodes(g, i)) = Len(AddressOperandsOf(added[g][i]))
               /\ \A k \in 1..Len(AddressNodes(g, i)) :
                      AddressNodeMatches(
                          g, NodesOfBlock(g, {"Instruction"})[i],
                          AddressNodes(g, i)[k],
                          AddressOperandsOf(added[g][i])[k],
                          SortedSeq(EdgesInto(g, AddressNodes(g, i)[k])))
    /\ op # "fatal" =>
           accumulators =
               AccumulatorsOf(
                   Replay(NewBuilder(out_of_vocabulary_behavior, "_UNK_"),
                          [g \in 1..Len(added) |->
                              WithoutScaling(added[g])]))

\* A block in the builder has an address operand with a base and an index
\* register, a displacement and a scaling of 4, and, under ReplaceToken,
\* one with a base and a segment register and no displacement.
C27_Witness ==
    /\ op = "add" /\ ret = TRUE
    /\ \E g \in 1..Len(added) :
           \E i \in 1..Len(added[g]) :
               /\ AddressOperandsOf(added[g][i]) =
                      <<AddressOperand("RBX", "RAX", "", 8, 4)>>
               /\ Cardinality(EdgesInto(g, AddressNodes(g, i)[1])) = 3
    /\ \E g \in 1..Len(added) :
           \E i \in 1..Len(added[g]) :
               /\ AddressOperandsOf(added[g][i]) =
                      <<AddressOperand("RAX", "", "XS", 0, 1)>>
               /\ Cardinality(EdgesInto(g, AddressNodes(g, i)[1])) = 2


\* ------------------------------- structural edges and prefixes (C28)

\* The StructuralDependency edges of block g, in edge order.
StructuralEdges(g) ==
    SortedSeq({e \in EdgesOfBlock(g) :
                  edge_types[e] = "StructuralDependency"})

\* The Prefix nodes made for instruction i of block g, in order.
PrefixNodes(g, i) ==
    SortedSeq({n \in NodesOfBlock(g, {"Instruction"})[i]
                         ..(InstructionEnd(g, i) - 1) :
                  node_types[n + 1] = "Prefix"})

\* The Prefix nodes of instruction i of block g are those of prefixes, each
\* with one edge, an InstructionPrefix edge to the instruction that comes
\* before the structural edge into the instruction.
PrefixNodesMatch(g, i, prefixes, nodes, instruction_nodes, structural) ==
    /\ Len(nodes) = Len(prefixes)
    /\ \A m \in 1..Len(nodes) :
           /\ node_features[nodes[m] + 1] = TokenOrReplacement(prefixes[m])
           /\ EdgesInto(g, nodes[m]) = {}
           /\ Cardinality(EdgesFrom(g, nodes[m])) = 1
           /\ \A e \in EdgesFrom(g, nodes[m]) :
                  /\ edge_types[e] = "InstructionPrefix"
                  /\ edge_receivers[e] = instruction_nodes[i]
                  /\ i > 1 => e < structural[i - 1]

\* C28: a block of k instructions in the builder has max(k - 1, 0)
\* StructuralDependency edges, the j-th from the node of its j-th
\* instruction to the node of the (j + 1)-th; no such edge arrives at the
\* first instruction of a block or lies outside the blocks; every prefix
\* of an instruction has one Prefix node with one InstructionPrefix edge to
\* the instruction, added before the structural edge of the instruction.
C28_StructuralAndPrefixEdges ==
    /\ \A g \in 1..Len(added) :
           \A instruction_nodes \in {NodesOfBlock(g, {"Instruction"})} :
               \A structural \in {StructuralEdges(g)} :
                   /\ Len(instruction_nodes) = Len(added[g])
                   /\ Len(structural) =
                          IF Len(added[g]) = 0 THEN 0 ELSE Len(added[g]) - 1
                   /\ \A j \in 1..Len(structural) :
                          /\ edge_senders[structural[j]]
                                 = instruction_nodes[j]
                          /\ edge_receivers[structural[j]]
                                 = instruction_nodes[j + 1]
                   /\ \A i \in 1..Len(added[g]) :
                          PrefixNodesMatch(g, i, added[g][i].prefixes,
                                           PrefixNodes(g, i),
                                           instruction_nodes, structural)
    /\ \A e \in 1..Len(edge_types) :
           edge_types[e] = "StructuralDependency" =>
               \E g \in 1..Len(added) :
                   /\ e \in EdgesOfBlock(g)
                   /\ NodesOfBlock(g, {"Instruction"})[1] # edge_receivers[e]
    /\ Len(added) = Len(num_nodes_per_block)

\* The builder holds a block of two instructions whose second instruction
\* has a prefix: the InstructionPrefix edge comes before the one
\* StructuralDependency edge of the block.
C28_Witness ==
    /\ op = "add" /\ ret = TRUE
    /\ \E g \in 1..Len(added) :
           /\ Len(added[g]) = 2
           /\ Len(added[g][2].prefixes) = 1
           /\ Len(StructuralEdges(g)) = 1
           /\ Len(PrefixNodes(g, 2)) = 1
           /\ \A e \in EdgesFrom(g, PrefixNodes(g, 2)[1]) :
                  e < StructuralEdges(g)[1]


\* ------------------------------------------- edges stay in their block (C29)

\* C29: the edges are stored block after block, in block order: the edges
\* of block g are the num_edges_per_block[g] edges after those of the
\* blocks before it, these ranges cover the edge vectors, and both ends of
\* every edge of block g are nodes of block g.
C29_EdgesWithinBlocks ==
    op # "fatal" =>
        /\ SumSeq(num_edges_per_block) = Len(edge_senders)
        /\ SumSeq(num_nodes_per_block) = Len(node_types)
        /\ \A g \in 1..Len(num_edges_per_block) :
               \A e \in EdgesOfBlock(g) :
                   /\ BlockStart(g) <= edge_senders[e]
                   /\ edge_senders[e] < BlockEnd(g)
                   /\ BlockStart(g) <= edge_receivers[e]
                   /\ edge_receivers[e] < BlockEnd(g)

\* After a reset, the builder holds two blocks that both read the register
\* RAX and the alias group 1, each with its own nodes and edges.
C29_Witness ==
    /\ op = "add" /\ ret = TRUE /\ fresh.reset
    /\ Len(added) = 2
    /\ \A g \in 1..2 :
           /\ num_edges_per_block[g] > 0
           /\ Len(added[g]) = 1
           /\ \E k \in 1..Len(ReadsOf(added[g][1])) :
                  ReadsOf(added[g][1])[k].res = <<"Register", "RAX">>
           /\ \E k \in 1..Len(ReadsOf(added[g][1])) :
                  ReadsOf(added[g][1])[k].res = <<"MemoryOperand", 1>>

\* --------------------------------------- failed adds leave no trace (C30)

\* Builders b and clean give the same for a call of add_block: the value
\* returned, the end of the process, the accumulators.
SameEffect(r, c) ==
    /\ r.b.fatal = c.b.fatal
    /\ ~r.b.fatal =>
           /\ r.ret = c.ret
           /\ AccumulatorsOf(r.b) = AccumulatorsOf(c.b)

\* C30: the accumulators are those of a builder that was given only the
\* calls of add_block that returned true, and after a call that failed
\* every call of add_block returns and leaves on the builder what it does
\* on that builder: a failed call, with the entries it left in
\* register_nodes and alias_group_nodes, does not change what later calls
\* do.
C30_FailedAddsLeaveNoTrace ==
    [](op # "fatal" =>
        \A clean \in {Replay(NewBuilder(out_of_vocabulary_behavior, "_UNK_"),
                              added)} :
            /\ accumulators = AccumulatorsOf(clean)
            /\ (op = "add" /\ ~ret) =>
                   \A instructions \in BlocksToAdd :
                       SameEffect(
                           AddBasicBlockFromInstructions(Builder,
                                                         instructions),
                           AddBasicBlockFromInstructions(clean,
                                                         instructions)))

\* A call has just failed and left in register_nodes a node that was rolled
\* back and in alias_group_nodes an entry; the builder holds a block and
\* can be given a block that reads that register.
C30_Witness ==
    /\ op = "add" /\ ret = FALSE
    /\ Len(added) = 1 /\ Len(node_types) > 0
    /\ \E name \in DOMAIN register_nodes :
           /\ register_nodes[name] >= Len(node_types)
           /\ \E instructions \in BlocksToAdd :
                  /\ Len(instructions) = 1
                  /\ \E k \in 1..Len(ReadsOf(instructions[1])) :
                         ReadsOf(instructions[1])[k].res
                             = <<"Register", name>>
    /\ DOMAIN alias_group_nodes # {}

\* --------------------------------------------------------- no cycles (C13)

\* The nodes left after removing, again and again, every node that has no
\* edge from a node that is left.
RECURSIVE NodesOnCycles(_)
NodesOnCycles(nodes) ==
    IF \E n \in nodes :
           \A e \in 1..Len(edge_senders) :
               edge_receivers[e] = n => edge_senders[e] \notin nodes
    THEN NodesOnCycles({n \in nodes :
             \E e \in 1..Len(edge_senders) :
                 edge_receivers[e] = n /\ edge_senders[e] \in nodes})
    ELSE nodes

\* The Register nodes of block g for register_name that instruction node n
\* gets an InputOperands edge from.
RegisterNodesRead(g, n, register_name) ==
    {edge_senders[e] : e \in {e \in EdgesOfBlock(g) :
        /\ edge_receivers[e] = n /\ edge_types[e] = "InputOperands"
        /\ node_types[edge_senders[e] + 1] = "Register"
        /\ node_features[edge_senders[e] + 1] =
               TokenOrReplacement(register_name)}}

\* The Register nodes of block g for register_name that instruction node n
\* has an OutputOperands edge to.
RegisterNodesWritten(g, n, register_name) ==
    {edge_receivers[e] : e \in {e \in EdgesOfBlock(g) :
        /\ edge_senders[e] = n /\ edge_types[e] = "OutputOperands"
        /\ node_types[edge_receivers[e] + 1] = "Register"
        /\ node_features[edge_receivers[e] + 1] =
               TokenOrReplacement(register_name)}}

\* The registers instruction reads as a direct operand and also writes.
RegistersReadAndWritten(instruction) ==
    {name \in TokensOf(instruction) :
        /\ \E k \in 1..Len(ReadsOf(instruction)) :
               /\ ReadsOf(instruction)[k].res = <<"Register", name>>
               /\ ReadsOf(instruction)[k].edge = "InputOperands"
        /\ \E k \in 1..Len(WritesOf(instruction)) :
               WritesOf(instruction)[k] = <<"Register", name>>}

\* C13: the edges of the builder form no directed cycle, and an instruction
\* that reads and writes the same register has an edge from an earlier node
\* of the register and an edge to another, newer node of it.
C13_NoDirectedCycle ==
    /\ NodesOnCycles(0..(Len(node_types) - 1)) = {}
    /\ \A g \in 1..Len(added) :
           \A i \in 1..Len(added[g]) :
               \A name \in RegistersReadAndWritten(added[g][i]) :
                   \A n \in {NodesOfBlock(g, {"Instruction"})[i]} :
                       /\ RegisterNodesRead(g, n, name) # {}
                       /\ RegisterNodesWritten(g, n, name) # {}
                       /\ \A read \in RegisterNodesRead(g, n, name) :
                              \A written \in RegisterNodesWritten(g, n, name) :
                                  read < written

\* A block is in the builder whose two instructions both read and write the
\* same register.
C13_Witness ==
    /\ op = "add" /\ ret = TRUE
    /\ \E g \in 1..Len(added) :
           /\ Len(added[g]) = 2
           /\ RegistersReadAndWritten(added[g][1])
                  \cap RegistersReadAndWritten(added[g][2]) # {}
           /\ EdgesOfBlock(g) # {}

\* ======================================================================
\* convert_bhive_to_llvm_exegesis_input
\* ======================================================================

kInitialRegVal == 305419776
kInitialMemVal == 8
kInitialMemValBitWidth == 32
kRegDefPrefix == "# LLVM-EXEGESIS-DEFREG "
kMemDefPrefix == "# LLVM-EXEGESIS-MEM-DEF "
kMemMapPrefix == "# LLVM-EXEGESIS-MEM-MAP "
kLoopRegisterPrefix == "# LLVM-EXEGESIS-LOOP-REGISTER "
kMemNamePrefix == "MEM"

\* The default of the unsigned flags, std::numeric_limits<unsigned>::max().
\* It stands here as the largest integer of the model checker, 2^31 - 1: the
\* counters of a run stay far below both, so that no sum wraps around.
kUnsignedMax == 2147483647

\* std::string::npos.
npos == -1

\* std::optional, absl::StatusOr: a sequence with the value, or the empty
\* sequence when there is no value.
nullopt == <<>>
Some(value) == <<value>>
has_value(optional) == optional # <<>>
ValueOf(optional) == optional[1]

\* --------------------------------------------------------- number formats

Digits ==
    <<"0", "1", "2", "3", "4", "5", "6", "7", "8", "9",
      "a", "b", "c", "d", "e", "f">>

\* The digits of n in the given base, most significant first.
RECURSIVE ToDigits(_, _)
ToDigits(n, base) ==
    IF n < base THEN <<Digits[n + 1]>>
    ELSE Append(ToDigits(n \div base, base), Digits[(n % base) + 1])

\* gematria::ConvertHexToString: the value in hexadecimal.
ConvertHexToString(value) == ToDigits(value, 16)

\* operator<< of an unsigned integer on a stream in its std::dec state.
Decimal(value) == ToDigits(value, 10)

\* The memory value string of main: kInitialMemVal in hexadecimal, prefixed
\* with zeroes up to kInitialMemValBitWidth bits.
PadMemVal(str) ==
    IF kInitialMemValBitWidth > Len(str) * 4
    THEN [k \in 1..((kInitialMemValBitWidth - Len(str) * 4) \div 4) |-> "0"]
         \o str
    ELSE str

initial_mem_val_str == PadMemVal(ConvertHexToString(kInitialMemVal))

initial_reg_val_str == ConvertHexToString(kInitialRegVal)

\* ---------------------------------------------------------------- registers

\* llvm::MCRegisterInfo::getName: the name of register id (ids 1, 2, ...).
RegisterNames == <<"RAX", "RCX", "RDX", "RBX", "XMM0">>

getName(register_id) == RegisterNames[register_id]

\* initial_regs with every register at value.
InitialRegs(value) ==
    [rax |-> value, rcx |-> value, rdx |-> value, rbx |-> value,
     rsi |-> value, rdi |-> value, rsp |-> value, rbp |-> value,
     r8 |-> value, r9 |-> value, r10 |-> value, r11 |-> value,
     r12 |-> value, r13 |-> value, r14 |-> value, r15 |-> value]

\* WriteAsmOutput that gives every register the value kInitialRegVal.
RegisterValueIgnoresInitialRegs(register_id, initial_regs) == kInitialRegVal

\* The value WriteAsmOutput gives register_id.
RegisterValue(register_id, initial_regs) ==
    CASE getName(register_id) = "RAX" -> initial_regs.rax
      [] getName(register_id) = "RCX" -> initial_regs.rcx
      [] getName(register_id) = "RDX" -> initial_regs.rdx
      [] getName(register_id) = "RBX" -> initial_regs.rbx
      [] getName(register_id) = "RSI" -> initial_regs.rsi
      [] getName(register_id) = "RDI" -> initial_regs.rdi
      [] getName(register_id) = "RSP" -> initial_regs.rsp
      [] getName(register_id) = "RBP" -> initial_regs.rbp
      [] getName(register_id) = "R8" -> initial_regs.r8
      [] getName(register_id) = "R9" -> initial_regs.r9
      [] getName(register_id) = "R10" -> initial_regs.r10
      [] getName(register_id) = "R11" -> initial_regs.r11
      [] getName(register_id) = "R12" -> initial_regs.r12
      [] getName(register_id) = "R13" -> initial_regs.r13
      [] getName(register_id) = "R14" -> initial_regs.r14
      [] getName(register_id) = "R15" -> initial_regs.r15
      [] OTHER -> kInitialRegVal

\* ------------------------------------------------------------------ inputs

\* gematria::AccessedAddrs.
AccessedAddrs(block_size, accessed_blocks, initial_regs) ==
    [block_size |-> block_size, accessed_blocks |-> accessed_blocks,
     initial_regs |-> initial_regs]

\* A default-constructed AccessedAddrs, what the annotator "none" gives.
DefaultAccessedAddrs == AccessedAddrs(0, <<>>, InitialRegs(kInitialRegVal))

\* struct AnnotatedBlock; the proto is its list of assembly lines.
AnnotatedBlock(accessed_addrs, assembly, used_registers, loop_register) ==
    [accessed_addrs |-> accessed_addrs,
     basic_block_proto |-> assembly,
     used_registers |-> used_registers,
     loop_register |-> loop_register]

\* std::string::find: the 0-based position of the first c in text, or npos.
Find(text, c) ==
    IF \E k \in 1..Len(text) : text[k] = c
    THEN (CHOOSE k \in 1..Len(text) :
              text[k] = c /\ \A m \in 1..(k - 1) : text[m] # c) - 1
    ELSE npos

\* std::string_view::substr(0, count).
Substr(text, count) == SubSeq(text, 1, count)

\* A line of the CSV file: its characters and what ParseHexString,
\* DisassembleAllInstructions (the assembly of the instructions), the
\* address finder, getUsedRegisters and getLoopRegister give for it.
Line(text, bytes, instructions, addrs, used_registers, loop_register) ==
    [text |-> text, bytes |-> bytes, instructions |-> instructions,
     addrs |-> addrs, used_registers |-> used_registers,
     loop_register |-> loop_register]

GoodLines ==
    { \* a loop register and two accessed pages
      Line(<<"5", "0", "c", "8", ",", "1">>, Some(<<80, 200>>),
           Some(<<"movq (%rax), %xmm0", "addq $1, %rcx">>),
           Some(AccessedAddrs(4096, <<8192, 305418240>>,
                    [InitialRegs(kInitialRegVal) EXCEPT !.rax = 8192])),
           <<1, 5, 2>>, Some(2)),
      \* no loop register, one accessed page
      Line(<<"9", "0", ",", "2", ".", "5">>, Some(<<144>>),
           Some(<<"movq %rbx, (%rdx)">>),
           Some(AccessedAddrs(4096, <<4096>>,
                    [InitialRegs(kInitialRegVal) EXCEPT !.rdx = 4096,
                                                        !.rbx = 255])),
           <<3, 4>>, nullopt),
      \* a loop register, no memory access
      Line(<<"f", "f", "c", "3", ",", "7">>, Some(<<255, 195>>),
           Some(<<"incq %rbx">>),
           Some(AccessedAddrs(4096, <<>>, InitialRegs(kInitialRegVal))),
           <<4>>, Some(4)),
      \* no loop register, no memory access, no register, nothing after
      \* the comma
      Line(<<"c", "3", ",">>, Some(<<195>>), Some(<<"retq">>),
           Some(AccessedAddrs(4096, <<>>, InitialRegs(0))),
           <<>>, nullopt) }

BadLines ==
    { \* an empty line
      Line(<<>>, Some(<<>>), Some(<<>>),
           Some(AccessedAddrs(4096, <<>>, InitialRegs(kInitialRegVal))),
           <<>>, nullopt),
      \* no comma
      Line(<<"5", "0", "c", "8">>, Some(<<80, 200>>),
           Some(<<"movq %rcx, %rax">>),
           Some(AccessedAddrs(4096, <<>>, InitialRegs(kInitialRegVal))),
           <<1, 2>>, Some(1)),
      \* not hexadecimal
      Line(<<"5", "0", "c", ",", "1">>, nullopt, nullopt, nullopt,
           <<>>, nullopt),
      \* bytes that do not disassemble
      Line(<<"0", "f", ",", "1">>, Some(<<15>>), nullopt, nullopt,
           <<>>, nullopt),
      \* the address finder fails
      Line(<<"a", "1", ",", "1">>, Some(<<161>>),
           Some(<<"movabsq 0, %rax">>), nullopt, <<1>>, Some(1)) }

LinePool == GoodLines \cup BadLines

\* gematria::FindAccessedAddrs, the fast finder: the addresses and the
\* register snapshot it finds for the line, or nullopt for an error status.
FindAccessedAddrs(line) == line.addrs

\* ExegesisAnnotator::findAccessedAddrs: the addresses it finds for the
\* line; initial_regs is left at its default.
findAccessedAddrs(line) ==
    IF has_value(line.addrs)
    THEN Some([ValueOf(line.addrs) EXCEPT
                   !.initial_regs = DefaultAccessedAddrs.initial_regs])
    ELSE nullopt

\* GetAccessedAddrs that runs the fast finder for every annotator.
GetAccessedAddrsAlwaysFast(line, annotator) == FindAccessedAddrs(line)

\* GetAccessedAddrs.
GetAccessedAddrs(line, annotator) ==
    CASE annotator = "fast" -> FindAccessedAddrs(line)
      [] annotator = "exegesis" -> findAccessedAddrs(line)
      [] annotator = "none" -> Some(DefaultAccessedAddrs)

\* AnnotateBasicBlock: the AnnotatedBlock, or nullopt for an error status.
AnnotateBasicBlock(line, annotator) ==
    IF ~has_value(line.bytes) THEN nullopt
    ELSE IF ~has_value(line.instructions) THEN nullopt
    ELSE IF ~has_value(GetAccessedAddrs(line, annotator)) THEN nullopt
    ELSE Some(AnnotatedBlock(ValueOf(GetAccessedAddrs(line, annotator)),
                             ValueOf(line.instructions),
                             line.used_registers, line.loop_register))

\* ----------------------------------------------------------------- emitters

\* GetJSONForSnippet.
GetJSONForSnippet(annotated_block, hex) ==
    [RegisterDefinitions |->
        [k \in 1..Len(annotated_block.used_registers) |->
            [Register |-> annotated_block.used_registers[k],
             Value |-> kInitialRegVal]],
     \* the register, or null (the empty optional)
     LoopRegister |->
        IF has_value(annotated_block.loop_register)
        THEN Some(ValueOf(annotated_block.loop_register)) ELSE nullopt,
     MemoryDefinitions |->
        IF Len(annotated_block.accessed_addrs.accessed_blocks) > 0
        THEN <<[Name |-> kMemNamePrefix,
                Size |-> annotated_block.accessed_addrs.block_size,
                Value |-> kInitialMemVal]>>
        ELSE <<>>,
     MemoryMappings |->
        IF Len(annotated_block.accessed_addrs.accessed_blocks) > 0
        THEN [k \in 1..Len(annotated_block.accessed_addrs.accessed_blocks) |->
                 [Value |-> kMemNamePrefix,
                  Address |->
                      annotated_block.accessed_addrs.accessed_blocks[k]]]
        ELSE <<>>,
     Hex |-> hex]

\* The lines WriteAsmOutput writes for the registers; a line is the sequence
\* of the pieces streamed before its "\n".
RegisterLines(annotated_block) ==
    [k \in 1..Len(annotated_block.used_registers) |->
        <<kRegDefPrefix, getName(annotated_block.used_registers[k]), " ",
          ConvertHexToString(
              RegisterValue(annotated_block.used_registers[k],
                            annotated_block.accessed_addrs.initial_regs))>>]

\* The lines for the memory definition and the memory mappings.
MemoryLines(annotated_block, mem_val_str) ==
    (IF Len(annotated_block.accessed_addrs.accessed_blocks) > 0
     THEN <<<<kMemDefPrefix, kMemNamePrefix, " ",
              Decimal(annotated_block.accessed_addrs.block_size), " ",
              mem_val_str>>>>
     ELSE <<>>)
    \o [k \in 1..Len(annotated_block.accessed_addrs.accessed_blocks) |->
           <<kMemMapPrefix, kMemNamePrefix, " ",
             Decimal(annotated_block.accessed_addrs.accessed_blocks[k])>>]

\* The line for the loop register.
LoopRegisterLines(annotated_block) ==
    IF has_value(annotated_block.loop_register)
    THEN <<<<kLoopRegisterPrefix,
             getName(ValueOf(annotated_block.loop_register))>>>>
    ELSE <<>>

\* The lines for the instructions.
AssemblyLines(annotated_block) ==
    [k \in 1..Len(annotated_block.basic_block_proto) |->
        <<annotated_block.basic_block_proto[k]>>]

\* WriteAsmOutput that writes the loop register line before the memory lines.
WriteAsmOutputLoopRegisterFirst(annotated_block, output_dir, counter, mem_val_str, reg_val_str, is_open) ==
    IF ~is_open THEN nullopt
    ELSE Some([name |-> <<output_dir, "/", Decimal(counter), ".test">>,
               contents |-> RegisterLines(annotated_block)
                            \o LoopRegisterLines(annotated_block)
                            \o MemoryLines(annotated_block, mem_val_str)
                            \o AssemblyLines(annotated_block)])

\* WriteAsmOutput: the file written, or nullopt for an error status
\* (is_open: whether the output file could be opened).
WriteAsmOutput(annotated_block, output_dir, counter, mem_val_str, reg_val_str, is_open) ==
    IF ~is_open THEN nullopt
    ELSE Some([name |-> <<output_dir, "/", Decimal(counter), ".test">>,
               contents |-> RegisterLines(annotated_block)
                            \o MemoryLines(annotated_block, mem_val_str)
                            \o LoopRegisterLines(annotated_block)
                            \o AssemblyLines(annotated_block)])

\* WriteJsonFile: the file written, or nullopt when it returns false
\* (is_open: whether the output file could be opened).
WriteJsonFile(to_write, json_file_number, output_dir, is_open) ==
    IF ~is_open THEN nullopt
    ELSE Some([name |-> <<output_dir, "/", Decimal(json_file_number),
                          ".json">>,
               contents |-> to_write])

\* --------------------------------------------------------------------- main

\* The run as a record of the variables that main changes.
Run ==
    [processed_snippets |-> processed_snippets,
     file_counter |-> file_counter,
     loop_register_failures |-> loop_register_failures,
     pc |-> pc, exit_code |-> exit_code,
     asm_files |-> asm_files, json_files |-> json_files,
     lines_read |-> lines_read, last |-> last, emitted |-> emitted,
     annotated |-> annotated, io_failure |-> io_failure]

\* return code;
Return(r, code) == [r EXCEPT !.pc = "exit", !.exit_code = code]

\* The last loop iteration ended as outcome.
Outcome(r, outcome) ==
    [r EXCEPT !.last = [line |-> Len(r.lines_read), outcome |-> outcome]]

\* The end of the loop body: the progress report and file_counter++.  With
\* report_progress_every = 0 the remainder is a division by zero: the
\* process is stopped by a signal (trap) or goes on, as the build has it.
EndOfIteration(r, line, annotated_block, trap) ==
    IF r.file_counter # 0 /\ report_progress_every = 0 /\ trap
    THEN Outcome([r EXCEPT !.pc = "crashed"], "crashed")
    ELSE Outcome([r EXCEPT !.file_counter = @ + 1,
                           !.emitted = Append(@, [block |-> annotated_block,
                                                  line |-> line])],
                 "emitted")

\* the JSON batch is full: write it.
WriteFullBatch(r, line, annotated_block, file, trap) ==
    IF ~has_value(file)
    THEN Outcome(Return([r EXCEPT !.io_failure = "json"], 4), "json_failed")
    ELSE EndOfIteration([r EXCEPT !.json_files = Append(@, ValueOf(file)),
                                  !.processed_snippets = <<>>],
                        line, annotated_block, trap)

\* if (!json_output_dir.empty()) { ... }, r.processed_snippets holding the
\* new snippet already.
JsonOutput(r, line, annotated_block, json_is_open, trap) ==
    IF (r.file_counter + 1) % blocks_per_json_file = 0
    THEN WriteFullBatch(r, line, annotated_block,
             WriteJsonFile(r.processed_snippets,
                           r.file_counter \div blocks_per_json_file,
                           json_output_dir, json_is_open),
             trap)
    ELSE EndOfIteration(r, line, annotated_block, trap)

\* The loop body after the ASM output.
AfterAsmOutput(r, line, annotated_block, json_is_open, trap) ==
    IF json_output_dir # ""
    THEN JsonOutput([r EXCEPT !.processed_snippets =
                        Append(@, GetJSONForSnippet(
                                      annotated_block,
                                      Substr(line.text,
                                             Find(line.text, ","))))],
                    line, annotated_block, json_is_open, trap)
    ELSE EndOfIteration(r, line, annotated_block, trap)

\* if (!asm_output_dir.empty()) { ... }, file being what WriteAsmOutput gave.
AsmOutput(r, line, annotated_block, file, json_is_open, trap) ==
    IF ~has_value(file)
    THEN Outcome(Return([r EXCEPT !.io_failure = "asm"], 2), "asm_failed")
    ELSE AfterAsmOutput([r EXCEPT !.asm_files = Append(@, ValueOf(file))],
                        line, annotated_block, json_is_open, trap)

\* The loop body that skips a block without a loop register whatever
\* skip_no_loop_register says.
EmitOrSkipIgnoresFlag(r, line, annotated_block, asm_is_open, json_is_open, trap) ==
    IF ~has_value(annotated_block.loop_register)
    THEN Outcome([r EXCEPT !.loop_register_failures = @ + 1], "skipped")
    ELSE IF asm_output_dir # ""
    THEN AsmOutput(r, line, annotated_block,
             WriteAsmOutput(annotated_block, asm_output_dir, r.file_counter,
                            initial_mem_val_str, initial_reg_val_str,
                            asm_is_open),
             json_is_open, trap)
    ELSE AfterAsmOutput(r, line, annotated_block, json_is_open, trap)

\* The loop body that gives a skipped block a counter too.
EmitOrSkipCountsSkipped(r, line, annotated_block, asm_is_open, json_is_open, trap) ==
    IF ~has_value(annotated_block.loop_register) /\ skip_no_loop_register
    THEN Outcome([r EXCEPT !.loop_register_failures = @ + 1,
                           !.file_counter = @ + 1],
                 "skipped")
    ELSE IF asm_output_dir # ""
    THEN AsmOutput(r, line, annotated_block,
             WriteAsmOutput(annotated_block, asm_output_dir, r.file_counter,
                            initial_mem_val_str, initial_reg_val_str,
                            asm_is_open),
             json_is_open, trap)
    ELSE AfterAsmOutput(r, line, annotated_block, json_is_open, trap)

\* The loop body once the block is annotated: skip it or emit it.
EmitOrSkip(r, line, annotated_block, asm_is_open, json_is_open, trap) ==
    IF ~has_value(annotated_block.loop_register) /\ skip_no_loop_register
    THEN Outcome([r EXCEPT !.loop_register_failures = @ + 1],
                 "skipped")
    ELSE IF asm_output_dir # ""
    THEN AsmOutput(r, line, annotated_block,
             WriteAsmOutput(annotated_block, asm_output_dir, r.file_counter,
                            initial_mem_val_str, initial_reg_val_str,
                            asm_is_open),
             json_is_open, trap)
    ELSE AfterAsmOutput(r, line, annotated_block, json_is_open, trap)

\* The loop body after the comma was found, annotated_block being what
\* AnnotateBasicBlock gave.
AfterAnnotate(r, line, annotated_block, asm_is_open, json_is_open, trap) ==
    IF ~has_value(annotated_block)
    THEN Outcome(Return(r, 2), "annotate_failed")
    ELSE EmitOrSkip(r, line, ValueOf(annotated_block), asm_is_open,
                    json_is_open, trap)

\* The loop body that goes on with the next line when a line has no comma.
LoopBodyIgnoresNoComma(r, line, asm_is_open, json_is_open, trap) ==
    IF r.file_counter >= max_bb_count
    THEN Outcome([r EXCEPT !.pc = "flush"], "break")
    ELSE IF Find(line.text, ",") = npos
    THEN Outcome(r, "no_comma")
    ELSE AfterAnnotate([r EXCEPT !.annotated = @ + 1], line,
                       AnnotateBasicBlock(line, annotator_implementation),
                       asm_is_open, json_is_open, trap)

\* The body of the loop over the lines, r.lines_read holding line already.
LoopBody(r, line, asm_is_open, json_is_open, trap) ==
    IF r.file_counter >= max_bb_count
    THEN Outcome([r EXCEPT !.pc = "flush"], "break")
    ELSE IF Find(line.text, ",") = npos
    THEN Outcome(Return(r, 2), "no_comma")
    ELSE AfterAnnotate([r EXCEPT !.annotated = @ + 1], line,
                       AnnotateBasicBlock(line, annotator_implementation),
                       asm_is_open, json_is_open, trap)

\* The code after the loop, file being what WriteJsonFile gave.
AfterFinalWrite(r, file) ==
    IF ~has_value(file)
    THEN Return([r EXCEPT !.io_failure = "json"], 4)
    ELSE Return([r EXCEPT !.json_files = Append(@, ValueOf(file))], 0)

\* The final flush that skips a batch of one block.
AfterLoopDropsSingle(r, json_is_open) ==
    IF json_output_dir # "" /\ Len(r.processed_snippets) > 1
    THEN AfterFinalWrite(r,
             WriteJsonFile(r.processed_snippets,
                           r.file_counter \div blocks_per_json_file,
                           json_output_dir, json_is_open))
    ELSE Return(r, 0)

\* The code after the loop.
AfterLoop(r, json_is_open) ==
    IF json_output_dir # "" /\ Len(r.processed_snippets) # 0
    THEN AfterFinalWrite(r,
             WriteJsonFile(r.processed_snippets,
                           r.file_counter \div blocks_per_json_file,
                           json_output_dir, json_is_open))
    ELSE Return(r, 0)

\* main before the loop that does not check blocks_per_json_file.
BeforeLoopNoBatchCheck(r, llvm_state_created, annotator_created) ==
    IF bhive_csv = "" THEN Return(r, 1)
    ELSE IF ~llvm_state_created THEN Return(r, 1)
    ELSE IF annotator_implementation = "exegesis" /\ ~annotator_created
    THEN Return(r, 1)
    ELSE [r EXCEPT !.pc = "loop"]

\* main before the loop: the flags are checked, the LLVM state and the
\* exegesis annotator are created.
BeforeLoop(r, llvm_state_created, annotator_created) ==
    IF bhive_csv = "" THEN Return(r, 1)
    ELSE IF blocks_per_json_file <= 0 THEN Return(r, 1)
    ELSE IF ~llvm_state_created THEN Return(r, 1)
    ELSE IF annotator_implementation = "exegesis" /\ ~annotator_created
    THEN Return(r, 1)
    ELSE [r EXCEPT !.pc = "loop"]

\* ------------------------------------------------------- converter actions

\* The variables main changes take the fields of r.
RunBecomes(r) ==
    /\ processed_snippets' = r.processed_snippets
    /\ file_counter' = r.file_counter
    /\ loop_register_failures' = r.loop_register_failures
    /\ pc' = r.pc
    /\ exit_code' = r.exit_code
    /\ asm_files' = r.asm_files
    /\ json_files' = r.json_files
    /\ lines_read' = r.lines_read
    /\ last' = r.last
    /\ emitted' = r.emitted
    /\ annotated' = r.annotated
    /\ io_failure' = r.io_failure

\* No builder: the state of the builder's variables under ConverterSpec.
BuilderIdle ==
    \A b \in {NewBuilder("ReturnError", "_UNK_")} :
        /\ node_tokens = b.node_tokens
        /\ immediate_token = b.immediate_token
        /\ fp_immediate_token = b.fp_immediate_token
        /\ address_token = b.address_token
        /\ memory_token = b.memory_token
        /\ out_of_vocabulary_behavior = b.out_of_vocabulary_behavior
        /\ replacement_token = b.replacement_token
        /\ num_nodes_per_block = b.num_nodes_per_block
        /\ num_edges_per_block = b.num_edges_per_block
        /\ node_types = b.node_types
        /\ node_features = b.node_features
        /\ edge_senders = b.edge_senders
        /\ edge_receivers = b.edge_receivers
        /\ edge_types = b.edge_types
        /\ global_features = b.global_features
        /\ register_nodes = b.register_nodes
        /\ alias_group_nodes = b.alias_group_nodes
        /\ op = "idle"
        /\ ret = TRUE
        /\ added = <<>>
        /\ fresh = [b |-> b, ret |-> TRUE, reset |-> FALSE]

\* The values tried for blocks_per_json_file and max_bb_count: the small
\* ones and the default.
UnsignedFlagValues == (0..MaxFlag) \cup {kUnsignedMax}

\* The process starts: the flags have the values of the command line.
ConverterInit ==
    /\ BuilderIdle
    /\ AnnotatorIdle
    /\ bhive_csv \in {"", "bhive.csv"}
    /\ asm_output_dir \in {"", "asm"}
    /\ json_output_dir \in {"", "json"}
    /\ annotator_implementation \in {"exegesis", "fast", "none"}
    /\ blocks_per_json_file \in UnsignedFlagValues
    /\ max_bb_count \in UnsignedFlagValues
    /\ report_progress_every \in {0, kUnsignedMax}
    /\ skip_no_loop_register \in BOOLEAN
    /\ processed_snippets = <<>> /\ file_counter = 0
    /\ loop_register_failures = 0
    /\ pc = "main" /\ exit_code = -1
    /\ asm_files = <<>> /\ json_files = <<>>
    /\ lines_read = <<>> /\ last = [line |-> 0, outcome |-> "none"]
    /\ emitted = <<>> /\ annotated = 0 /\ io_failure = "none"

\* main up to the loop.
Main ==
    /\ pc = "main"
    /\ \E llvm_state_created \in BOOLEAN, annotator_created \in BOOLEAN :
           RunBecomes(BeforeLoop(Run, llvm_state_created, annotator_created))
    /\ UNCHANGED <<flags, builder, bb_annotator>>

\* std::getline gives a line: one iteration of the loop.  The files to open
\* can be opened or not.
ReadLine ==
    /\ pc = "loop"
    /\ Len(lines_read) < MaxLines
    /\ \E line \in LinePool :
           \E asm_is_open \in BOOLEAN, json_is_open \in BOOLEAN,
              trap \in BOOLEAN :
               RunBecomes(LoopBody([Run EXCEPT !.lines_read = Append(@, line)],
                                   line, asm_is_open, json_is_open, trap))
    /\ UNCHANGED <<flags, builder, bb_annotator>>

\* std::getline fails: the input file (if it could be opened at all) has
\* no more lines.
EndOfFile ==
    /\ pc = "loop"
    /\ RunBecomes([Run EXCEPT !.pc = "flush",
                              !.last = [line |-> Len(lines_read),
                                        outcome |-> "eof"]])
    /\ UNCHANGED <<flags, builder, bb_annotator>>

\* main after the loop.
Flush ==
    /\ pc = "flush"
    /\ \E json_is_open \in BOOLEAN : RunBecomes(AfterLoop(Run, json_is_open))
    /\ UNCHANGED <<flags, builder, bb_annotator>>

ConverterNext == Main \/ ReadLine \/ EndOfFile \/ Flush

ConverterSpec == ConverterInit /\ [][ConverterNext]_vars

\* ------------------------------------------------------- JSON batches (C14)

\* The smaller of two numbers.
Min(a, b) == IF a < b THEN a ELSE b

\* The snippet of the k-th emitted block.
SnippetOfEmitted(k) ==
    GetJSONForSnippet(emitted[k].block,
                      Substr(emitted[k].line.text,
                             Find(emitted[k].line.text, ",")))

\* C14: a run with JSON output that returns 0 after emitting N blocks with
\* batch size b has written the files 0.json .. (ceil(N/b)-1).json, each
\* once and in this order; file n holds the snippets of the emitted blocks
\* n*b .. min(N, (n+1)*b) - 1 in input order, so that no file is empty and
\* only the last can hold fewer than b.
C14_JsonBatches ==
    (pc = "exit" /\ exit_code = 0 /\ json_output_dir # "") =>
        /\ blocks_per_json_file >= 1
        /\ Len(json_files) * blocks_per_json_file >= Len(emitted)
        /\ (Len(json_files) - 1) * blocks_per_json_file < Len(emitted)
               \/ (Len(json_files) = 0 /\ emitted = <<>>)
        /\ \A n \in 0..(Len(json_files) - 1) :
               /\ json_files[n + 1].name =
                      <<json_output_dir, "/", Decimal(n), ".json">>
               /\ json_files[n + 1].contents =
                      [k \in 1..(Min(Len(emitted),
                                     (n + 1) * blocks_per_json_file)
                                 - n * blocks_per_json_file) |->
                          SnippetOfEmitted(n * blocks_per_json_file + k)]
               /\ json_files[n + 1].contents # <<>>

\* A run returned 0 after emitting three blocks in batches of two: a full
\* file and a partial one.
C14_Witness ==
    /\ pc = "exit" /\ exit_code = 0 /\ json_output_dir # ""
    /\ blocks_per_json_file = 2
    /\ Len(emitted) = 3
    /\ Len(json_files) = 2
    /\ Len(json_files[1].contents) = 2
    /\ Len(json_files[2].contents) = 1
    /\ loop_register_failures = 0

\* ------------------------------------------- blocks without loop register

\* The line the step reads.
LineRead == lines_read'[Len(lines_read')]

\* The step is an iteration of the loop that gets past the max_bb_count
\* test.
LineReached ==
    /\ pc = "loop"
    /\ Len(lines_read') = Len(lines_read) + 1
    /\ file_counter < max_bb_count

\* The step reaches a line whose block is annotated and has no loop register.
NoLoopRegisterBlockReached ==
    /\ LineReached
    /\ Find(LineRead.text, ",") # npos
    /\ has_value(AnnotateBasicBlock(LineRead, annotator_implementation))
    /\ ~has_value(LineRead.loop_register)

\* Whether an ASM file has a LOOP-REGISTER line.
HasLoopRegisterLine(file) ==
    \E k \in 1..Len(file.contents) :
        file.contents[k][1] = kLoopRegisterPrefix

\* The step emits the block of the line it reads, as far as the outputs are
\* enabled and can be opened, with a null LoopRegister and no LOOP-REGISTER
\* line.
EmitsWithoutLoopRegister ==
    /\ loop_register_failures' = loop_register_failures
    /\ last'.outcome \in {"emitted", "asm_failed", "json_failed", "crashed"}
    /\ (asm_output_dir # "" /\ last'.outcome # "asm_failed") =>
           /\ Len(asm_files') = Len(asm_files) + 1
           /\ ~HasLoopRegisterLine(asm_files'[Len(asm_files')])
           /\ asm_files'[Len(asm_files')].contents # <<>>
    /\ (asm_output_dir = "" \/ last'.outcome = "asm_failed") =>
           asm_files' = asm_files
    /\ (json_output_dir # "" /\ last'.outcome = "emitted") =>
           \A snippets \in {IF processed_snippets' # <<>>
                            THEN processed_snippets'
                            ELSE json_files'[Len(json_files')].contents} :
               /\ snippets[Len(snippets)].LoopRegister = nullopt
               /\ snippets[Len(snippets)].Hex =
                      Substr(LineRead.text, Find(LineRead.text, ","))
    /\ last'.outcome = "emitted" =>
           /\ emitted' = Append(emitted,
                  [block |-> ValueOf(AnnotateBasicBlock(
                                         LineRead, annotator_implementation)),
                   line |-> LineRead])
           /\ file_counter' = file_counter + 1

\* C15: a block without a loop register is, under skip_no_loop_register,
\* written to no output, counted once in the skip counter, and followed by
\* the next line without a change of the exit code; without the flag the
\* block is emitted, with a null LoopRegister in the JSON snippet and no
\* LOOP-REGISTER line in the ASM file.
C15_SkipWithoutLoopRegister ==
    [][NoLoopRegisterBlockReached =>
          IF skip_no_loop_register
          THEN /\ files' = files
               /\ processed_snippets' = processed_snippets
               /\ emitted' = emitted
               /\ loop_register_failures' = loop_register_failures + 1
               /\ pc' = "loop"
               /\ exit_code' = exit_code
               /\ io_failure' = io_failure
          ELSE EmitsWithoutLoopRegister]_vars

\* A run returned 0 that skipped two blocks and emitted one between them to
\* both outputs.
C15_Witness ==
    /\ pc = "exit" /\ exit_code = 0
    /\ skip_no_loop_register
    /\ loop_register_failures = 2
    /\ Len(emitted) = 1 /\ Len(lines_read) = 3
    /\ ~has_value(lines_read[1].loop_register)
    /\ ~has_value(lines_read[3].loop_register)
    /\ Len(asm_files) = 1 /\ Len(json_files) = 1

\* ---------------------------------------------------- exit codes (C16-C19)

\* C16: whenever an output file, a per-block ASM file or a JSON batch file,
\* cannot be opened, the run returns 4.
C16_OutputFailureReturns4 ==
    (pc = "exit" /\ io_failure # "none") => exit_code = 4

\* The step reaches a line without a comma, or one whose hex does not parse
\* or does not disassemble, or for which the address finder fails.
BadLineReached ==
    /\ LineReached
    /\ \/ Find(LineRead.text, ",") = npos
       \/ ~has_value(LineRead.bytes)
       \/ ~has_value(LineRead.instructions)
       \/ ~has_value(GetAccessedAddrs(LineRead, annotator_implementation))

\* C17: a line the run reaches that has no comma (an empty line included),
\* whose hex does not parse, that does not disassemble or for which the
\* address finder fails makes the run return 2 at once, nothing more being
\* written or emitted; and a run that has returned takes no further step, so
\* that no later line is processed and the exit code stays.
C17_BadLineReturns2 ==
    [][/\ pc \notin {"exit", "crashed"}
       /\ BadLineReached =>
              /\ pc' = "exit" /\ exit_code' = 2
              /\ files' = files
              /\ processed_snippets' = processed_snippets
              /\ emitted' = emitted
              /\ file_counter' = file_counter]_vars

\* After an emitted block, the address finder failed for the second line and
\* the run returned 2.
C17_Witness ==
    /\ pc = "exit" /\ exit_code = 2
    /\ last = [line |-> 2, outcome |-> "annotate_failed"]
    /\ Len(emitted) = 1
    /\ has_value(lines_read[2].instructions)
    /\ ~has_value(lines_read[2].addrs)
    /\ io_failure = "none"

\* C18: the number of blocks processed, the skipped ones included, is at
\* most max_bb_count.
C18_ProcessedAtMostMaxBbCount == annotated <= max_bb_count

\* The run was started with a configuration error.
ConfigError == bhive_csv = "" \/ blocks_per_json_file = 0

\* C19: a run with a configuration error returns 1 before it reads a line or
\* opens an output file, and a run that has started on the lines never
\* returns 1.
C19_ConfigErrorReturns1 ==
    /\ (ConfigError /\ pc # "main") =>
           /\ pc = "exit" /\ exit_code = 1
    /\ exit_code = 1 =>
           /\ lines_read = <<>> /\ last.outcome = "none"
           /\ annotated = 0
           /\ asm_files = <<>> /\ json_files = <<>>

\* A run with an input file and both outputs, but blocks_per_json_file = 0,
\* returned 1.
C19_Witness ==
    /\ pc = "exit" /\ exit_code = 1
    /\ bhive_csv # "" /\ blocks_per_json_file = 0
    /\ json_output_dir # "" /\ asm_output_dir # ""

\* ------------------------------------------------------- ASM format (C20)

\* The number the digits are in the given base.
RECURSIVE FromDigits(_, _)
FromDigits(digits, base) ==
    IF digits = <<>> THEN 0
    ELSE FromDigits(SubSeq(digits, 1, Len(digits) - 1), base) * base
         + (CHOOSE d \in 0..15 : Digits[d + 1] = digits[Len(digits)])

\* The register with the given name.
RegisterNamed(name) ==
    CHOOSE id \in 1..Len(RegisterNames) : RegisterNames[id] = name

\* The kind of a line of an ASM file, by its prefix, and the place of the
\* kind in the file.
KindOf(asm_line) ==
    CASE asm_line[1] = kRegDefPrefix -> 1
      [] asm_line[1] = kMemDefPrefix -> 2
      [] asm_line[1] = kMemMapPrefix -> 3
      [] asm_line[1] = kLoopRegisterPrefix -> 4
      [] OTHER -> 5

\* The lines of the given kind, in file order.
LinesOfKind(contents, kind) ==
    SelectSeq(contents, LAMBDA asm_line : KindOf(asm_line) = kind)

\* What the DEFREG lines read back as: the registers and their values.
RegistersRead(lines) ==
    [k \in 1..Len(lines) |->
        <<RegisterNamed(lines[k][2]), FromDigits(lines[k][4], 16)>>]

\* What the MEM-DEF lines read back as.
MemoryDefinitionsRead(lines) ==
    [k \in 1..Len(lines) |->
        [name |-> lines[k][2],
         size |-> FromDigits(lines[k][4], 10),
         bits |-> 4 * Len(lines[k][6]),
         value |-> FromDigits(lines[k][6], 16)]]

\* What the MEM-MAP lines read back as.
MappingsRead(lines) ==
    [k \in 1..Len(lines) |-> <<lines[k][2], FromDigits(lines[k][4], 10)>>]

\* What reading an ASM file back gives.
ReadAsm(contents) ==
    [registers |-> RegistersRead(LinesOfKind(contents, 1)),
     memory_definitions |-> MemoryDefinitionsRead(LinesOfKind(contents, 2)),
     mappings |-> MappingsRead(LinesOfKind(contents, 3)),
     loop_register |->
        [k \in 1..Len(LinesOfKind(contents, 4)) |->
            RegisterNamed(LinesOfKind(contents, 4)[k][2])],
     assembly |->
        [k \in 1..Len(LinesOfKind(contents, 5)) |->
            LinesOfKind(contents, 5)[k][1]]]

\* The initial_regs field of each of the 16 general purpose registers.
GprField ==
    [RAX |-> "rax", RCX |-> "rcx", RDX |-> "rdx", RBX |-> "rbx",
     RSI |-> "rsi", RDI |-> "rdi", RSP |-> "rsp", RBP |-> "rbp",
     R8 |-> "r8", R9 |-> "r9", R10 |-> "r10", R11 |-> "r11",
     R12 |-> "r12", R13 |-> "r13", R14 |-> "r14", R15 |-> "r15"]

\* What an ASM file of the block should read back as.
ExpectedAsm(annotated_block) ==
    [registers |->
        [k \in 1..Len(annotated_block.used_registers) |->
            <<annotated_block.used_registers[k],
              IF RegisterNames[annotated_block.used_registers[k]]
                     \in DOMAIN GprField
              THEN annotated_block.accessed_addrs.initial_regs[
                       GprField[RegisterNames[
                           annotated_block.used_registers[k]]]]
              ELSE kInitialRegVal>>],
     memory_definitions |->
        IF annotated_block.accessed_addrs.accessed_blocks # <<>>
        THEN <<[name |-> "MEM",
                size |-> annotated_block.accessed_addrs.block_size,
                bits |-> kInitialMemValBitWidth,
                value |-> kInitialMemVal]>>
        ELSE <<>>,
     mappings |->
        [k \in 1..Len(annotated_block.accessed_addrs.accessed_blocks) |->
            <<"MEM", annotated_block.accessed_addrs.accessed_blocks[k]>>],
     loop_register |-> annotated_block.loop_register,
     assembly |-> annotated_block.basic_block_proto]

\* C20: every ASM file has its DEFREG lines first, then the MEM-DEF line,
\* the MEM-MAP lines, the LOOP-REGISTER line and the assembly lines, and
\* reading it back gives the (register, value) pairs of the used registers
\* in order, one memory definition iff a page is accessed, the mappings in
\* the finder's order, the loop register iff there is one, and the assembly
\* of the instructions in order.
C20_AsmFileReadsBack ==
    [](asm_output_dir # "" =>
        /\ Len(asm_files) \in {Len(emitted), Len(emitted) + 1}
        /\ \A n \in 1..Len(emitted) :
               /\ asm_files[n].name =
                      <<asm_output_dir, "/", Decimal(n - 1), ".test">>
               /\ \A k \in 1..(Len(asm_files[n].contents) - 1) :
                      KindOf(asm_files[n].contents[k])
                          <= KindOf(asm_files[n].contents[k + 1])
               /\ ReadAsm(asm_files[n].contents) =
                      ExpectedAsm(emitted[n].block))

\* Two ASM files were written: one with registers from initial_regs and
\* with the default value, a memory definition, two mappings and a loop
\* register, and one with a memory mapping and no loop register.
C20_Witness ==
    /\ asm_output_dir # "" /\ Len(emitted) = 2 /\ Len(asm_files) = 2
    /\ annotator_implementation = "fast"
    /\ Len(asm_files[1].contents) = 9
    /\ ReadAsm(asm_files[1].contents).registers =
           <<<<1, 8192>>, <<5, kInitialRegVal>>, <<2, kInitialRegVal>>>>
    /\ ReadAsm(asm_files[1].contents).loop_register = <<2>>
    /\ ReadAsm(asm_files[2].contents).loop_register = <<>>
    /\ Len(ReadAsm(asm_files[2].contents).mappings) = 1

\* ------------------------------------------------- register values (C21)

\* The k-th block written to the outputs: an emitted block, or the block of
\* the last line read when the run ended before the end of the iteration
\* that wrote it.
BlockWritten(k) ==
    IF k <= Len(emitted) THEN emitted[k].block
    ELSE ValueOf(AnnotateBasicBlock(lines_read[Len(lines_read)],
                                    annotator_implementation))

\* C21: the k-th DEFREG line of every ASM file names the k-th used register
\* of the block, and its value is the register's entry of initial_regs
\* when the register is one of the 16 general purpose registers and the
\* annotator is the fast finder, and kInitialRegVal in every other case.
C21_RegisterValues ==
    \A n \in 1..Len(asm_files) :
        \A block \in {BlockWritten(n)} :
            RegistersRead(LinesOfKind(asm_files[n].contents, 1)) =
                [k \in 1..Len(block.used_registers) |->
                    <<block.used_registers[k],
                      IF /\ getName(block.used_registers[k])
                                \in DOMAIN GprField
                         /\ annotator_implementation = "fast"
                      THEN block.accessed_addrs.initial_regs[
                               GprField[getName(block.used_registers[k])]]
                      ELSE kInitialRegVal>>]

\* An ASM file of the fast finder gives RAX the value of the snapshot, which
\* is not kInitialRegVal, and XMM0 the value kInitialRegVal.
C21_Witness ==
    /\ annotator_implementation = "fast"
    /\ Len(asm_files) >= 1
    /\ ReadAsm(asm_files[1].contents).registers =
           <<<<RegisterNamed("RAX"), 8192>>,
             <<RegisterNamed("XMM0"), kInitialRegVal>>,
             <<RegisterNamed("RCX"), kInitialRegVal>>>>
    /\ lines_read[1].addrs[1].initial_regs.rax = 8192

\* --------------------------------------------------- JSON memory (C22)

\* The line of the k-th block written to the outputs.
LineWritten(k) ==
    IF k <= Len(emitted) THEN emitted[k].line
    ELSE lines_read[Len(lines_read)]

\* The position among the written blocks of element j of the m-th JSON
\* file.
PositionOfElement(m, j) ==
    IF m = 1 THEN j ELSE (m - 1) * blocks_per_json_file + j

\* The memory arrays of a JSON element are those of the accessed addresses.
MemoryArraysMatch(element, accessed_addrs) ==
    /\ element.MemoryDefinitions =
           IF Len(accessed_addrs.accessed_blocks) = 0 THEN <<>>
           ELSE <<[Name |-> "MEM", Size |-> accessed_addrs.block_size,
                   Value |-> kInitialMemVal]>>
    /\ Len(element.MemoryMappings) = Len(accessed_addrs.accessed_blocks)
    /\ \A i \in 1..Len(accessed_addrs.accessed_blocks) :
           element.MemoryMappings[i] =
               [Value |-> "MEM",
                Address |-> accessed_addrs.accessed_blocks[i]]
    /\ (element.MemoryMappings = <<>>) <=> (element.MemoryDefinitions = <<>>)
    /\ Len(element.MemoryDefinitions) <= 1

\* C22: in every element of every JSON file written, MemoryDefinitions is
\* the one definition of MEM (size block_size, value kInitialMemVal) when
\* the finder gave the block an accessed address and is empty otherwise,
\* MemoryMappings has one entry per accessed address, in the finder's
\* order, each naming MEM, and is empty iff MemoryDefinitions is; with the
\* annotator "none" both arrays are empty.
C22_JsonMemoryArrays ==
    \A m \in 1..Len(json_files) :
        \A j \in 1..Len(json_files[m].contents) :
            /\ annotator_implementation # "none" =>
                   MemoryArraysMatch(
                       json_files[m].contents[j],
                       ValueOf(LineWritten(PositionOfElement(m, j)).addrs))
            /\ annotator_implementation = "none" =>
                   /\ json_files[m].contents[j].MemoryDefinitions = <<>>
                   /\ json_files[m].contents[j].MemoryMappings = <<>>

\* A JSON file of the exegesis finder holds an element with one definition
\* and two mappings in the finder's order, and an element with neither.
C22_Witness ==
    /\ annotator_implementation = "exegesis"
    /\ Len(json_files) >= 1
    /\ Len(json_files[1].contents) = 2
    /\ Len(json_files[1].contents[1].MemoryDefinitions) = 1
    /\ json_files[1].contents[1].MemoryMappings =
           <<[Value |-> "MEM", Address |-> 8192],
             [Value |-> "MEM", Address |-> 305418240]>>
    /\ lines_read[1].addrs[1].accessed_blocks = <<8192, 305418240>>
    /\ json_files[1].contents[2].MemoryDefinitions = <<>>
    /\ json_files[1].contents[2].MemoryMappings = <<>>

\* ------------------------------------------- counters of the outputs (C31)

\* The lines read that are to be written, by their position in the input:
\* the lines with a comma whose block is annotated and which has a loop
\* register or is not to be skipped without one; the line at which the loop
\* was left because max_bb_count was reached is none of them.
KeptLines ==
    {i \in 1..Len(lines_read) :
        /\ ~(i = last.line /\ last.outcome = "break")
        /\ Find(lines_read[i].text, ",") # npos
        /\ \A a \in {AnnotateBasicBlock(lines_read[i],
                                         annotator_implementation)} :
               /\ has_value(a)
               /\ \/ has_value(ValueOf(a).loop_register)
                  \/ ~skip_no_loop_register}

\* The line that is to get counter c.
LineOfCounter(c) == lines_read[SortedSeq(KeptLines)[c + 1]]

\* C31: with both outputs enabled, the n-th ASM file is <n-1>.test and
\* holds the block of the n-th line to be written, in input order (skipped
\* blocks use no counter, no counter is used twice, file_counter counts the
\* blocks emitted); the m-th JSON file is <m-1>.json, and once the file
\* floor(c / blocks_per_json_file).json is written its element at position
\* c mod blocks_per_json_file is the snippet of the block in <c>.test; every
\* element of a JSON file is the snippet of a block in an ASM file.
C31_CountersAgree ==
    []((asm_output_dir # "" /\ json_output_dir # "") =>
        /\ file_counter = Len(emitted)
        /\ Len(asm_files) \in {file_counter, file_counter + 1}
        /\ Cardinality(KeptLines) \in {Len(asm_files), Len(asm_files) + 1}
        /\ \A c \in 0..(Len(asm_files) - 1) :
               \A line \in {LineOfCounter(c)} :
               \A block \in {ValueOf(AnnotateBasicBlock(
                                 line, annotator_implementation))} :
                   /\ Some(asm_files[c + 1]) =
                          WriteAsmOutput(block, asm_output_dir, c,
                                         initial_mem_val_str,
                                         initial_reg_val_str, TRUE)
                   /\ \A m \in 1..Len(json_files) :
                          json_files[m].name =
                              <<json_output_dir, "/",
                                Decimal(c \div blocks_per_json_file),
                                ".json">> =>
                              /\ m = (c \div blocks_per_json_file) + 1
                              /\ (c % blocks_per_json_file)
                                     < Len(json_files[m].contents)
                              /\ json_files[m].contents[
                                     (c % blocks_per_json_file) + 1] =
                                     GetJSONForSnippet(
                                         block,
                                         Substr(line.text,
                                                Find(line.text, ",")))
        /\ \A m \in 1..Len(json_files) :
               /\ json_files[m].name =
                      <<json_output_dir, "/", Decimal(m - 1), ".json">>
               /\ \A j \in 1..Len(json_files[m].contents) :
                      /\ j <= blocks_per_json_file
                      /\ PositionOfElement(m, j) <= Len(asm_files))

\* Both outputs are enabled, a block without loop register was skipped
\* between two blocks that were emitted: the ASM files 0.test and 1.test
\* hold the first and the third line, and the one JSON file holds both.
C31_Witness ==
    /\ asm_output_dir # "" /\ json_output_dir # ""
    /\ blocks_per_json_file = 2
    /\ KeptLines = {1, 3}
    /\ loop_register_failures = 1
    /\ file_counter = 2
    /\ Len(asm_files) = 2
    /\ asm_files[2].name = <<asm_output_dir, "/", Decimal(1), ".test">>
    /\ Len(json_files) = 1
    /\ Len(json_files[1].contents) = 2
    /\ json_files[1].contents[1] # json_files[1].contents[2]

\* ------------------------------------------------------------ bb_annotator

\* MemVal.SizeBytes: the size of the memory value "test", one page.
SizeBytes == 4096

\* llvm::exegesis::MemoryMapping.
MemoryMapping(Address) == [Address |-> Address, MemoryValueName |-> "test"]

\* What runConfiguration gives: the measurements, a SnippetCrash with the
\* address of the segmentation fault (0 when the crash is no segmentation
\* fault), or another error.
Measured == [kind |-> "success", SegfaultAddress |-> 0]
SnippetCrash(SegfaultAddress) ==
    [kind |-> "SnippetCrash", SegfaultAddress |-> SegfaultAddress]
OtherError == [kind |-> "Failure", SegfaultAddress |-> 0]

\* The addresses the block can fault at: the first byte of the pages
\* 0 .. MaxPage and a byte inside each of them.
SegfaultAddresses ==
    {page * SizeBytes + offset : page \in 0..MaxPage, offset \in {0, 8}}

\* The behaviours of the harness for one run.
HarnessResults ==
    {Measured, OtherError} \cup {SnippetCrash(a) : a \in SegfaultAddresses}

\* The handler given to handleErrors: the mappings after a SnippetCrash.
HandleSnippetCrash(mappings, testThing) ==
    IF testThing.SegfaultAddress = 0 THEN mappings
    ELSE Append(mappings, MemoryMapping(testThing.SegfaultAddress))

\* The mappings after a call of runConfiguration that gave results.
MappingsAfter(mappings, results) ==
    IF results.kind = "SnippetCrash"
    THEN HandleSnippetCrash(mappings, results)
    ELSE mappings

\* The process starts.
AnnotatorInit ==
    /\ BuilderIdle
    /\ ConverterIdle
    /\ MemoryMappings = <<>> /\ RC = nullopt
    /\ BenchmarkResults = [kind |-> "none", SegfaultAddress |-> 0]
    /\ annotator_pc = "main" /\ annotator_exit_code = -1
    /\ ran_with = nullopt

\* main up to the loop: ExitOnErr and ExitWithError end the process with
\* exit code 1 when the LLVM state, the disassembly, the benchmark runner
\* or libpfm fails.
AnnotatorMain ==
    /\ annotator_pc = "main"
    /\ \E created \in BOOLEAN :
           /\ annotator_pc' = IF created THEN "loop" ELSE "exit"
           /\ annotator_exit_code' = IF created THEN -1 ELSE 1
    /\ UNCHANGED <<MemoryMappings, RC, BenchmarkResults, ran_with>>
    /\ UNCHANGED <<builder, converter>>

\* The start of an iteration: getRunnableConfiguration builds RC from
\* BenchCode, or ExitOnErr ends the process.
GetRunnableConfiguration ==
    /\ annotator_pc = "loop"
    /\ \E built \in BOOLEAN :
           /\ RC' = IF built THEN Some(MemoryMappings) ELSE nullopt
           /\ annotator_pc' = IF built THEN "run" ELSE "exit"
           /\ annotator_exit_code' = IF built THEN -1 ELSE 1
    /\ UNCHANGED <<MemoryMappings, BenchmarkResults, ran_with>>
    /\ UNCHANGED <<builder, converter>>

\* The rest of the iteration: runConfiguration runs RC; an error is
\* handled and the loop continues, measurements leave the loop.
RunConfiguration ==
    /\ annotator_pc = "run"
    /\ \E results \in HarnessResults :
           /\ Len(MappingsAfter(MemoryMappings, results)) <= MaxMappings
           /\ BenchmarkResults' = results
           /\ MemoryMappings' = MappingsAfter(MemoryMappings, results)
           /\ annotator_pc' = IF results.kind = "success" THEN "mapping"
                              ELSE "loop"
    /\ ran_with' = RC
    /\ RC' = nullopt
    /\ UNCHANGED annotator_exit_code
    /\ UNCHANGED <<builder, converter>>

\* After the loop: the mappings are printed and main returns 0.
PrintMappings ==
    /\ annotator_pc = "mapping"
    /\ annotator_pc' = "exit"
    /\ annotator_exit_code' = 0
    /\ UNCHANGED <<MemoryMappings, RC, BenchmarkResults, ran_with>>
    /\ UNCHANGED <<builder, converter>>

AnnotatorNext ==
    AnnotatorMain \/ GetRunnableConfiguration \/ RunConfiguration
        \/ PrintMappings

AnnotatorSpec == AnnotatorInit /\ [][AnnotatorNext]_vars

\* The process is not suspended forever: a statement that can be executed
\* is executed.
AnnotatorFairSpec == AnnotatorSpec /\ WF_vars(AnnotatorNext)

\* ------------------------------------------------- the retry loop (C23-C26)

\* C23: the retry loop terminates for every behaviour of the harness: the
\* process returns after a run that succeeded or stops with an error; it
\* never retries forever.
C23_RetryLoopTerminates == <>(annotator_pc = "exit")

\* The step is a call of runConfiguration that reports a crash at address 0
\* or an error that is no crash.
FatalResult ==
    /\ annotator_pc = "run"
    /\ annotator_pc' # "run"
    /\ \/ BenchmarkResults' = SnippetCrash(0)
       \/ BenchmarkResults' = OtherError

\* C24: when the harness reports a fault at address 0 or an error that is
\* not a segmentation fault of a missing mapping, the process stops with an
\* error: no mapping is added and the block is not run again.
C24_FatalResultStops ==
    [][FatalResult =>
          /\ annotator_pc' = "exit"
          /\ annotator_exit_code' \notin {-1, 0}
          /\ MemoryMappings' = MemoryMappings]_vars

\* C25: every mapped address is a multiple of the page size (the page of
\* the faulting address) and no page is mapped twice.
C25_MappingsPageAligned ==
    /\ \A i \in 1..Len(MemoryMappings) :
           MemoryMappings[i].Address % SizeBytes = 0
    /\ \A i, j \in 1..Len(MemoryMappings) :
           (i # j) =>
               (MemoryMappings[i].Address \div SizeBytes)
                   # (MemoryMappings[j].Address \div SizeBytes)

\* The step is a call of runConfiguration that reports a crash.
FaultingRun ==
    /\ annotator_pc = "run"
    /\ annotator_pc' # "run"
    /\ BenchmarkResults'.kind = "SnippetCrash"

====
